---- MODULE Spec2Model ----
(***************************************************************************)
(* helixir-rs: the write pipeline (ToolingManager::add_memory and the      *)
(* store operations it issues), entered either through HelixirClient::add  *)
(* or directly on the ToolingManager.                                      *)
(*                                                                         *)
(* Strings the code inspects (memory texts, relation labels) are sequences *)
(* of one-character strings, so that to_lowercase, to_uppercase, contains  *)
(* and chars().take(n) are computed, not assumed.  Option<T> is a sequence *)
(* of length 0 (None) or 1 (Some).  Ids are pairs <<kind, n>>.             *)
(***************************************************************************)
EXTENDS Integers, Sequences, FiniteSets, TLC

\* ------------------------------------------------------------------ bounds

\* Longest list of memories the extractor returns in one call.
MaxMems == 2

\* Longest list of relations the extractor returns in one call.
MaxRels == 1

\* ------------------------------------------------------- program constants

SupersedeStrength == 90
ContradictStrength == 80
RelationStrength == 80
FallbackCertainty == 50
FallbackImportance == 50
KeyPrefixChars == 100
StrengthMin == 0
StrengthMax == 100
I32Max == 2147483647

\* --------------------------------------------------------------- Option<T>

None == <<>>
Some(x) == <<x>>
IsSome(o) == Len(o) = 1
Unwrap(o) == o[1]

\* ----------------------------------------------------------------- strings

Lowers == <<"a","b","c","d","e","f","g","h","i","j","k","l","m",
            "n","o","p","q","r","s","t","u","v","w","x","y","z">>
Uppers == <<"A","B","C","D","E","F","G","H","I","J","K","L","M",
            "N","O","P","Q","R","S","T","U","V","W","X","Y","Z">>

LowerChar(c) ==
    IF \E i \in DOMAIN Uppers : Uppers[i] = c
    THEN Lowers[CHOOSE i \in DOMAIN Uppers : Uppers[i] = c]
    ELSE c

UpperChar(c) ==
    IF \E i \in DOMAIN Lowers : Lowers[i] = c
    THEN Uppers[CHOOSE i \in DOMAIN Lowers : Lowers[i] = c]
    ELSE c

to_lowercase(s) == [i \in DOMAIN s |-> LowerChar(s[i])]
to_uppercase(s) == [i \in DOMAIN s |-> UpperChar(s[i])]

\* str::contains: needle occurs in hay as a contiguous run (the empty needle
\* occurs everywhere).
contains(hay, needle) ==
    \E i \in 0..(Len(hay) - Len(needle)) :
        SubSeq(hay, i + 1, i + Len(needle)) = needle

\* s.chars().take(n).collect()
safe_truncate(s, n) == IF Len(s) <= n THEN s ELSE SubSeq(s, 1, n)

\* -------------------------------------------------------------------- ids

OldIds == { <<"old", 1>> }
MintedId(n) == <<"mem", n>>
InternalId(id) == <<"int", id[2]>>

\* ------------------------------------------------------------ the inputs

Message == <<"H","i">>

T_Ab == <<"A","b">>
T_b  == <<"b">>
T_AB == <<"A","B">>
T_cd == <<"c","d">>
MergedText == <<"A","b","+">>

\* What the extractor can return: the first n memories of this list
\* (repeated cyclically), for every n up to MaxMems.
ExtractedPool ==
    << [text |-> T_Ab, memory_type |-> "preference", certainty |-> 90,
        importance |-> 70, entities |-> <<"e1">>],
       [text |-> T_b, memory_type |-> "fact", certainty |-> 60,
        importance |-> 40, entities |-> <<"e9">>],
       [text |-> T_AB, memory_type |-> "event", certainty |-> 80,
        importance |-> 30, entities |-> <<>>],
       [text |-> T_cd, memory_type |-> "fact", certainty |-> 70,
        importance |-> 20, entities |-> <<"e1">>] >>

ExtractedMemories(n) ==
    [i \in 1..n |-> ExtractedPool[((i - 1) % Len(ExtractedPool)) + 1]]

\* extraction.entities: the entities the extractor declares ("e9" is
\* referenced by a memory but not declared).
ExtractedEntities == << [id |-> "e1", name |-> "Acme", entity_type |-> "org"] >>

L_implies  == <<"i","m","p","l","i","e","s">>
L_SUPPORTS == <<"S","U","P","P","O","R","T","S">>
L_other    == <<"w","h","y">>

RelationPool ==
    << [from_memory_content |-> T_AB, to_memory_content |-> T_b,
        relation_type |-> L_implies],
       [from_memory_content |-> <<"a">>, to_memory_content |-> T_Ab,
        relation_type |-> L_SUPPORTS],
       [from_memory_content |-> T_b, to_memory_content |-> <<"z">>,
        relation_type |-> L_other] >>

ExtractedRelations(n) ==
    [i \in 1..n |-> RelationPool[((i - 1) % Len(RelationPool)) + 1]]

\* ------------------------------------------------------------------ state

VARIABLES
    is_initialized,        \* HelixirClient.is_initialized
    ontology_loaded,       \* ToolingManager.ontology_manager.is_loaded()
    pc,                    \* position of the running call
    extraction,            \* result of extractor.extract
    memories_to_store,
    idx,                   \* 1-based position of the per-memory loop
    decision,              \* Option<MemoryDecision> of the current memory
    memory_id,             \* Option<id>: id bound by the dispatch
    new_chunks,            \* chunk_count of the running store_new_memory
    eidx,                  \* position in memory.entities
    concept_links,         \* concept links still to be written
    added_ids, updated_ids, skipped,
    entities_linked, relations_created, chunks_created,
    memory_content_to_id,  \* the content -> id map of the relation stage
    ridx,                  \* position in extraction.relations
    result,                \* Option<Result<AddMemoryResult, error>>
    next_uuid,             \* number of ids minted in this call
    stored,                \* ids whose addMemory succeeded in this call
    overwritten,           \* ids whose updateMemory succeeded in this call
    log,                   \* store and collaborator writes, in issue order
    last                   \* the latest awaited call and its outcome

client_vars == <<is_initialized, ontology_loaded>>
loop_vars == <<idx, decision, memory_id, new_chunks, eidx, concept_links>>
count_vars == <<added_ids, updated_ids, skipped, entities_linked,
                relations_created, chunks_created>>
rel_vars == <<memory_content_to_id, ridx>>
store_vars == <<next_uuid, stored, overwritten, log>>
vars == <<client_vars, pc, extraction, memories_to_store,
          loop_vars, count_vars, rel_vars, result, store_vars, last>>

\* The other components of the core, each driven by its own specification.
VARIABLES
    rf_results,             \* rank_and_filter: results
    rf_min_combined_score,  \* rank_and_filter: min_combined_score
    rf_filtered_results,    \* rank_and_filter: Option of the returned list
    graph_edges,            \* the store's logical edges between memories
    vector_hits,            \* graph_expansion_phase: vector_hits
    max_depth,              \* graph_expansion_phase: max_depth
    edge_types,             \* graph_expansion_phase: edge_types
    expansion_tasks,        \* one spawned task per hit
    all_results,            \* Option of graph_expansion_phase's Ok value
    ar_input,               \* add_relation: Option of the arguments
    ar_persisted,           \* add_relation: Option of the store request
    ar_result,              \* add_relation: Option of the returned Result
    relation_cache          \* ReasoningEngine.relation_cache

rank_vars == <<rf_results, rf_min_combined_score, rf_filtered_results>>
expand_vars == <<graph_edges, vector_hits, max_depth, edge_types,
                 expansion_tasks, all_results>>
engine_vars == <<ar_input, ar_persisted, ar_result, relation_cache>>

\* The reasoning engine's LLM-backed operations and the label decoding.
VARIABLES
    llm_provider,           \* ReasoningEngine.llm_provider is Some
    ir_response,            \* infer_relations: Option of what the LLM did
    ir_result,              \* infer_relations: Option of the returned Result
    rt_label,               \* add_memory: Option of a relation.relation_type
    rt_rel_type             \* add_memory: Option of the rel_type matched

infer_vars == <<llm_provider, ir_response, ir_result, rt_label, rt_rel_type>>

\* ToolingManager::update_memory and the store tables it writes.
VARIABLES
    store_memories,         \* the store's Memory nodes, by memory_id
    store_embeddings,       \* the store's embeddings, in insertion order
    um_input,               \* update_memory: Option of the arguments
    um_requests,            \* update_memory: the store requests it issued
    um_result,              \* update_memory: Option of the returned Result
    um_calls                \* update_memory calls made so far

update_vars == <<store_memories, store_embeddings, um_input, um_requests,
                 um_result, um_calls>>

\* ReasoningEngine::warm_up_cache.
VARIABLES
    is_warmed_up,           \* ReasoningEngine.is_warmed_up
    wu_calls,               \* the warm_up_cache calls made, by call
    wu_requests             \* getRecentRelations requests, in issue order

warm_vars == <<is_warmed_up, wu_calls, wu_requests>>

\* Overlapping HelixirClient::initialize calls.
VARIABLES
    init_calls,             \* the initialize calls made, by call
    ontology_loads          \* the ontology loads issued, in issue order

init_vars == <<init_calls, ontology_loads>>

\* ReasoningEngine::get_chain.
VARIABLES
    gc_input,               \* get_chain: Option of the arguments
    gc_pc,                  \* get_chain: position of the call
    gc_relations,           \* get_chain: relations
    gc_visited,             \* get_chain: visited
    gc_current_id,          \* get_chain: current_id
    gc_depth,               \* get_chain: depth
    gc_steps,               \* get_chain: what each loop iteration saw and chose
    gc_chain,               \* get_chain: Option of the returned chain
    gc_nodes                \* search_reasoning_chain: Option of the chain's nodes

chain_vars == <<gc_input, gc_pc, gc_relations, gc_visited, gc_current_id,
                gc_depth, gc_steps, gc_chain, gc_nodes>>

\* VectorSearch::search and its cache.
VARIABLES
    vs_cache,               \* VectorSearch.cache: entries, oldest insertion first
    vs_now,                 \* the clock the cache reads
    vs_call                 \* VectorSearch::search: Option of the running call

vector_vars == <<vs_cache, vs_now, vs_call>>

\* SearchEngine::search.
VARIABLES
    smart_traversal,        \* SearchEngine.smart_traversal is Some
    se_call                 \* SearchEngine::search: Option of the running call

search_vars == <<smart_traversal, se_call>>

\* ToolingManager::get_memory_graph.
VARIABLES
    mg_input,               \* get_memory_graph: Option of the arguments
    mg_pc,                  \* get_memory_graph: position of the call
    mg_nodes,               \* get_memory_graph: nodes
    mg_edges,               \* get_memory_graph: edges
    mg_visited,             \* get_memory_graph: visited
    mg_level,               \* get_memory_graph: current_ids, next_ids, current_depth
    mg_visits,              \* get_memory_graph: the memories visited, in order
    mg_result               \* get_memory_graph: Option of the returned pair

mgraph_vars == <<mg_input, mg_pc, mg_nodes, mg_edges, mg_visited, mg_level,
                 mg_visits, mg_result>>

\* SmartTraversalV2::search.
VARIABLES
    tr_owner,               \* the store: the user each memory is linked to
    tr_call                 \* SmartTraversalV2::search: Option of the running call

traversal_vars == <<tr_owner, tr_call>>

ext_vars == <<infer_vars, update_vars, warm_vars, init_vars, chain_vars,
              vector_vars, search_vars, mgraph_vars, traversal_vars>>
component_vars == <<rank_vars, expand_vars, engine_vars, ext_vars>>
all_vars == <<vars, component_vars>>

\* What each component's steps leave alone.
not_infer == <<vars, rank_vars, expand_vars, engine_vars, update_vars,
              warm_vars, init_vars, chain_vars,
              vector_vars, search_vars, mgraph_vars, traversal_vars>>
not_update == <<vars, rank_vars, expand_vars, engine_vars, infer_vars,
               warm_vars, init_vars, chain_vars,
              vector_vars, search_vars, mgraph_vars, traversal_vars>>
not_warm == <<vars, rank_vars, expand_vars, engine_vars, infer_vars,
             update_vars, init_vars, chain_vars,
              vector_vars, search_vars, mgraph_vars, traversal_vars>>
not_init == <<rank_vars, expand_vars, engine_vars, infer_vars,
             update_vars, warm_vars, chain_vars,
              vector_vars, search_vars, mgraph_vars, traversal_vars>>
not_chain == <<vars, rank_vars, expand_vars, engine_vars, infer_vars,
              update_vars, warm_vars, init_vars,
              vector_vars, search_vars, mgraph_vars, traversal_vars>>
not_vector == <<vars, rank_vars, expand_vars, engine_vars, infer_vars,
               update_vars, warm_vars, init_vars, chain_vars,
               search_vars, mgraph_vars, traversal_vars>>
not_search == <<vars, rank_vars, expand_vars, engine_vars, infer_vars,
               update_vars, warm_vars, init_vars, chain_vars, mgraph_vars, traversal_vars>>
not_mgraph == <<vars, rank_vars, expand_vars, engine_vars, infer_vars,
               update_vars, warm_vars, init_vars, chain_vars, vector_vars,
               search_vars, traversal_vars>>
not_traversal == <<vars, rank_vars, engine_vars, infer_vars, update_vars,
                  warm_vars, init_vars, chain_vars, vector_vars,
                  search_vars, mgraph_vars>>

\* No rank_and_filter call.
RankIdle ==
    /\ rf_results = <<>>
    /\ rf_min_combined_score = 0
    /\ rf_filtered_results = <<>>

\* No graph_expansion_phase call.
ExpandIdle ==
    /\ graph_edges = <<>>
    /\ vector_hits = <<>>
    /\ max_depth = 0
    /\ edge_types = <<>>
    /\ expansion_tasks = <<>>
    /\ all_results = <<>>

\* A new ReasoningEngine: no call, an empty cache.
EngineIdle ==
    /\ ar_input = <<>>
    /\ ar_persisted = <<>>
    /\ ar_result = <<>>
    /\ relation_cache = <<>>

\* No infer_relations call, no label being decoded, no LLM configured.
InferIdle ==
    /\ llm_provider = FALSE
    /\ ir_response = <<>>
    /\ ir_result = <<>>
    /\ rt_label = <<>>
    /\ rt_rel_type = <<>>

\* No update_memory call, an empty store.
UpdateIdle ==
    /\ store_memories = <<>>
    /\ store_embeddings = <<>>
    /\ um_input = <<>>
    /\ um_requests = <<>>
    /\ um_result = <<>>
    /\ um_calls = 0

\* A new ReasoningEngine: not warmed up, no warm_up_cache call.
WarmIdle ==
    /\ is_warmed_up = FALSE
    /\ wu_calls = <<>>
    /\ wu_requests = <<>>

\* No initialize call in progress.
InitIdle ==
    /\ init_calls = <<>>
    /\ ontology_loads = <<>>

\* No get_chain call.
ChainIdle ==
    /\ gc_input = <<>>
    /\ gc_pc = "idle"
    /\ gc_relations = <<>>
    /\ gc_visited = {}
    /\ gc_current_id = ""
    /\ gc_depth = 0
    /\ gc_steps = <<>>
    /\ gc_chain = <<>>
    /\ gc_nodes = <<>>

\* No VectorSearch::search call, an empty cache.
VectorIdle ==
    /\ vs_cache = <<>>
    /\ vs_now = 0
    /\ vs_call = <<>>

\* No SearchEngine::search call.
SearchIdle ==
    /\ smart_traversal = TRUE
    /\ se_call = <<>>

\* A BFS level of get_memory_graph before any memory of it is taken.
Level(current_ids, current_depth) ==
    [current_ids |-> current_ids, pos |-> 1, next_ids |-> <<>>,
     current_depth |-> current_depth]

\* No get_memory_graph call.
GraphIdle ==
    /\ mg_input = <<>>
    /\ mg_pc = "idle"
    /\ mg_nodes = <<>>
    /\ mg_edges = <<>>
    /\ mg_visited = {}
    /\ mg_level = Level(<<>>, 0)
    /\ mg_visits = <<>>
    /\ mg_result = <<>>

\* No SmartTraversalV2::search call, and no store it reads.
TraversalIdle ==
    /\ tr_owner = << >>
    /\ tr_call = None

\* The components added to the core's model after the first four.
ExtIdle ==
    /\ InferIdle /\ UpdateIdle /\ WarmIdle /\ InitIdle /\ ChainIdle
    /\ VectorIdle /\ SearchIdle /\ GraphIdle /\ TraversalIdle

NoExtraction == [memories |-> <<>>, entities |-> <<>>, relations |-> <<>>]
EmptyMap == [k \in {} |-> None]
NoCall == [op |-> "none", ok |-> TRUE]

\* The locals of a call before its first statement.
FreshLocals ==
    /\ extraction = NoExtraction
    /\ memories_to_store = <<>>
    /\ idx = 0 /\ decision = None /\ memory_id = None /\ new_chunks = 0
    /\ eidx = 0 /\ concept_links = <<>>
    /\ added_ids = <<>> /\ updated_ids = <<>> /\ skipped = 0
    /\ entities_linked = 0 /\ relations_created = 0 /\ chunks_created = 0
    /\ memory_content_to_id = EmptyMap /\ ridx = 0
    /\ result = None
    /\ next_uuid = 0 /\ stored = {} /\ overwritten = {} /\ log = <<>>
    /\ last = NoCall

ResetLocals ==
    /\ extraction' = NoExtraction
    /\ memories_to_store' = <<>>
    /\ idx' = 0 /\ decision' = None /\ memory_id' = None /\ new_chunks' = 0
    /\ eidx' = 0 /\ concept_links' = <<>>
    /\ added_ids' = <<>> /\ updated_ids' = <<>> /\ skipped' = 0
    /\ entities_linked' = 0 /\ relations_created' = 0 /\ chunks_created' = 0
    /\ memory_content_to_id' = EmptyMap /\ ridx' = 0
    /\ result' = None
    /\ next_uuid' = 0 /\ stored' = {} /\ overwritten' = {} /\ log' = <<>>
    /\ last' = NoCall

\* A new client and ToolingManager, no call running.
PipelineIdle ==
    /\ is_initialized = FALSE
    /\ ontology_loaded = FALSE
    /\ pc = "idle"
    /\ FreshLocals

Init ==
    /\ PipelineIdle
    /\ RankIdle /\ ExpandIdle /\ EngineIdle /\ ExtIdle

Err(kind) == [ok |-> FALSE, err |-> kind]

\* A call ends with an error: nothing but the error reaches the caller.
ReturnErr(kind) ==
    /\ pc' = "returned"
    /\ result' = Some(Err(kind))

\* ------------------------------------------------- initialization, entry

\* ToolingManager::initialize: loads the ontology unless it is loaded; a
\* failed load is returned to the caller.
ToolingInitializeResult(loaded, load_ok) ==
    LET needs_load == ~loaded IN
    IF needs_load /\ ~load_ok
    THEN [err |-> Some("Ontology"), ontology_loaded |-> loaded]
    ELSE [err |-> None, ontology_loaded |-> TRUE]

\* HelixirClient::initialize: health check, then ToolingManager::initialize;
\* the flag is set only when both succeed.
InitializeResult(initialized, loaded, health_ok, load_ok) ==
    IF initialized
    THEN [err |-> None, is_initialized |-> TRUE, ontology_loaded |-> loaded]
    ELSE IF ~health_ok
    THEN [err |-> Some("Health"), is_initialized |-> FALSE,
          ontology_loaded |-> loaded]
    ELSE LET t == ToolingInitializeResult(loaded, load_ok) IN
         [err |-> t.err, is_initialized |-> (t.err = None),
          ontology_loaded |-> t.ontology_loaded]

\* HelixirClient::ensure_initialized
EnsureInitializedResult(initialized, loaded, health_ok, load_ok) ==
    IF ~initialized
    THEN InitializeResult(initialized, loaded, health_ok, load_ok)
    ELSE [err |-> None, is_initialized |-> TRUE, ontology_loaded |-> loaded]

call_locals == <<extraction, memories_to_store, loop_vars, count_vars,
                 rel_vars, result, store_vars>>

\* A direct HelixirClient::initialize call.
ClientInitialize ==
    /\ pc = "idle"
    /\ ~is_initialized
    /\ \E health_ok \in BOOLEAN, load_ok \in BOOLEAN :
         LET r == InitializeResult(is_initialized, ontology_loaded,
                                   health_ok, load_ok) IN
         /\ is_initialized' = r.is_initialized
         /\ ontology_loaded' = r.ontology_loaded
         /\ last' = [op |-> "initialize", ok |-> (r.err = None)]
    /\ UNCHANGED <<pc, call_locals>>
    /\ UNCHANGED component_vars

\* HelixirClient::close
ClientClose ==
    /\ pc = "idle"
    /\ is_initialized
    /\ is_initialized' = FALSE
    /\ last' = [op |-> "close", ok |-> TRUE]
    /\ UNCHANGED <<ontology_loaded, pc, call_locals>>
    /\ UNCHANGED component_vars

\* HelixirClient::add up to its call of add_memory.
ClientAdd ==
    /\ pc = "idle"
    /\ \E health_ok \in BOOLEAN, load_ok \in BOOLEAN :
         LET r == EnsureInitializedResult(is_initialized, ontology_loaded,
                                          health_ok, load_ok) IN
         /\ is_initialized' = r.is_initialized
         /\ ontology_loaded' = r.ontology_loaded
         /\ last' = [op |-> "ensure_initialized", ok |-> (r.err = None)]
         /\ IF IsSome(r.err)
            THEN ReturnErr(Unwrap(r.err))
            ELSE pc' = "extract" /\ UNCHANGED result
    /\ UNCHANGED <<extraction, memories_to_store, loop_vars, count_vars,
                   rel_vars, store_vars>>
    /\ UNCHANGED component_vars

\* ToolingManager::initialize called on the ToolingManager.
ToolingInitialize ==
    /\ pc = "idle"
    /\ ~ontology_loaded
    /\ \E load_ok \in BOOLEAN :
         LET r == ToolingInitializeResult(ontology_loaded, load_ok) IN
         /\ ontology_loaded' = r.ontology_loaded
         /\ last' = [op |-> "initialize", ok |-> (r.err = None)]
    /\ UNCHANGED <<is_initialized, pc, call_locals>>
    /\ UNCHANGED component_vars

\* ToolingManager::add_memory called on the ToolingManager, which checks no
\* initialization.
ToolingAdd ==
    /\ pc = "idle"
    /\ pc' = "extract"
    /\ last' = NoCall
    /\ UNCHANGED <<client_vars, call_locals>>
    /\ UNCHANGED component_vars

\* The caller has taken the result; the next call starts from fresh locals.
Finish ==
    /\ pc = "returned"
    /\ pc' = "idle"
    /\ ResetLocals
    /\ UNCHANGED client_vars
    /\ UNCHANGED component_vars

\* ------------------------------------------------------------ extraction

\* A fallback that keeps the raw message but not the neutral defaults.
Fallback_Scored(message) ==
    [text |-> message, memory_type |-> "event",
     certainty |-> 100, importance |-> FallbackImportance,
     entities |-> <<>>]

Fallback(message) ==
    [text |-> message, memory_type |-> "fact",
     certainty |-> FallbackCertainty, importance |-> FallbackImportance,
     entities |-> <<>>]

\* memories_to_store: the extracted memories, or the single fallback.
MemoriesToStore(memories, message) ==
    IF memories = <<>> THEN << Fallback(message) >> ELSE memories

\* add_memory, step 1: the extractor call and the list to process.
Extract ==
    /\ pc = "extract"
    /\ \E ok \in BOOLEAN, n \in 0..MaxMems, r \in 0..MaxRels :
         /\ last' = [op |-> "extract", ok |-> ok]
         /\ IF ~ok
            THEN /\ ReturnErr("Extraction")
                 /\ UNCHANGED <<extraction, memories_to_store, idx>>
            ELSE /\ extraction' = [memories |-> ExtractedMemories(n),
                                   entities |-> ExtractedEntities,
                                   relations |-> ExtractedRelations(r)]
                 /\ memories_to_store' =
                        MemoriesToStore(ExtractedMemories(n), Message)
                 /\ idx' = 1
                 /\ pc' = "embed"
                 /\ UNCHANGED result
    /\ UNCHANGED <<client_vars, decision, memory_id, new_chunks,
                   eidx, concept_links, count_vars, rel_vars, store_vars>>
    /\ UNCHANGED component_vars


\* ------------------------------------------------------ the store's log

\* One request as the store (or a collaborator that writes to it) sees it:
\* m is the position of the memory being processed (0 in the relation
\* stage), a and b the ids or names it carries.
Entry(op, m, a, b, strength, memory) ==
    [op |-> op, m |-> m, a |-> a, b |-> b, strength |-> strength,
     memory |-> memory]

Ops == {"Add", "Update", "Supersede", "Contradict", "Delete", "Noop"}

\* ----------------------------------------------------- reasoning engine

\* ReasoningType::edge_name
edge_name(t) ==
    CASE t = "Implies" -> <<"I","M","P","L","I","E","S">>
      [] t = "Because" -> <<"B","E","C","A","U","S","E">>
      [] t = "Contradicts" -> <<"C","O","N","T","R","A","D","I","C","T","S">>
      [] t = "Supports" -> <<"S","U","P","P","O","R","T","S">>

\* A clamp that only bounds from above.
clamp_UpperOnly(x) == IF x > StrengthMax THEN StrengthMax ELSE x

\* i32::clamp(0, 100)
clamp(x) ==
    IF x < StrengthMin THEN StrengthMin
    ELSE IF x > StrengthMax THEN StrengthMax ELSE x

\* add_relation: the store operation the relation type routes to.
RelationOp(t) ==
    CASE t = "Implies" -> "addMemoryImplication"
      [] t = "Because" -> "addMemoryCausation"
      [] t = "Contradicts" -> "addMemoryContradiction"
      [] t = "Supports" -> "addReasoningRelation"

\* add_relation: the request sent to the store (addMemoryContradiction
\* carries no strength).
add_relation(m, from_id, to_id, t, strength) ==
    Entry(RelationOp(t), m, from_id, to_id,
          IF t = "Contradicts" THEN None ELSE Some(clamp(strength)),
          None)

\* ------------------------------------------------------- collaborators

\* ChunkingManager::should_chunk: the texts above the chunking threshold.
should_chunk(text) == text \in { T_Ab }

\* chunk_count of a successful add_memory_with_chunking.
ChunkCounts == {2}

\* OntologyManager::map_memory_to_concepts: concept id and confidence (in
\* hundredths) per mapping.
map_memory_to_concepts(text, memory_type) ==
    CASE memory_type = "preference" ->
            << [id |-> "c_pref", confidence |-> 80] >>
      [] memory_type = "fact" ->
            << [id |-> "c_fact", confidence |-> 65],
               [id |-> "c_thing", confidence |-> 100] >>
      [] OTHER -> <<>>

\* (m.confidence * 100.0) as i32: a saturating cast.
ConfidenceAsI32(hundredths) ==
    IF hundredths > I32Max THEN I32Max
    ELSE IF hundredths < -I32Max - 1 THEN -I32Max - 1 ELSE hundredths

\* The concept links of one memory: none while the ontology is not loaded.
ConceptLinks(loaded, memory) ==
    IF loaded
    THEN LET ms == map_memory_to_concepts(memory.text, memory.memory_type) IN
         [i \in DOMAIN ms |->
            [concept_id |-> ms[i].id,
             confidence |-> ConfidenceAsI32(ms[i].confidence)]]
    ELSE <<>>

\* -------------------------------------------------- the per-memory loop

Opt(S) == {None} \cup {Some(x) : x \in S}

\* The decisions the decision engine can return; the fields the dispatch
\* does not read for an operation are None.
Decisions(ids) ==
    LET D(op, t, mc, s, c) ==
            [operation |-> op, target_memory_id |-> t, merged_content |-> mc,
             supersedes_memory_id |-> s, contradicts_memory_id |-> c]
    IN  {D("Noop", None, None, None, None), D("Add", None, None, None, None)}
        \cup {D("Update", t, mc, None, None) :
                 t \in Opt(ids), mc \in Opt({MergedText})}
        \cup {D("Supersede", None, None, s, None) : s \in Opt(ids)}
        \cup {D("Contradict", None, None, None, c) : c \in Opt(ids)}
        \cup {D("Delete", t, None, None, None) : t \in Opt(ids)}

Memory == memories_to_store[idx]

\* The loop moves to the next memory, or past the loop.
\* A loop that hands over to the relation stage after every memory.
ContinueLoop_EarlyRelations ==
    /\ idx' = idx + 1
    /\ pc' = "build_map"
    /\ decision' = None
    /\ memory_id' = None
    /\ new_chunks' = 0
    /\ eidx' = 0
    /\ concept_links' = <<>>

ContinueLoop ==
    /\ idx' = idx + 1
    /\ pc' = IF idx + 1 > Len(memories_to_store) THEN "build_map" ELSE "embed"
    /\ decision' = None
    /\ memory_id' = None
    /\ new_chunks' = 0
    /\ eidx' = 0
    /\ concept_links' = <<>>

\* embedder.generate for the current memory.
Embed ==
    /\ pc = "embed"
    /\ \E ok \in BOOLEAN :
         /\ last' = [op |-> "embed", ok |-> ok]
         /\ IF ok THEN pc' = "decide" /\ UNCHANGED result
                  ELSE ReturnErr("Embedding")
    /\ UNCHANGED <<client_vars, extraction, memories_to_store,
                   loop_vars, count_vars, rel_vars, store_vars>>
    /\ UNCHANGED component_vars

\* Where the dispatch goes for a decision.
\* A dispatch whose Noop branch falls through to the store.
DispatchPc_NoopStores(d) ==
    CASE d.operation = "Update" ->
            IF IsSome(d.target_memory_id) /\ IsSome(d.merged_content)
            THEN "update_memory" ELSE "store_add_memory"
      [] d.operation = "Delete" ->
            IF IsSome(d.target_memory_id)
            THEN "delete_target" ELSE "store_add_memory"
      [] OTHER -> "store_add_memory"

\* A dispatch whose Update branch always stores a new memory.
DispatchPc_UpdateStores(d) ==
    CASE d.operation = "Noop" -> "continue"
      [] d.operation = "Delete" ->
            IF IsSome(d.target_memory_id)
            THEN "delete_target" ELSE "store_add_memory"
      [] OTHER -> "store_add_memory"

DispatchPc(d) ==
    CASE d.operation = "Noop" -> "continue"
      [] d.operation = "Update" ->
            IF IsSome(d.target_memory_id) /\ IsSome(d.merged_content)
            THEN "update_memory" ELSE "store_add_memory"
      [] d.operation = "Delete" ->
            IF IsSome(d.target_memory_id)
            THEN "delete_target" ELSE "store_add_memory"
      [] OTHER -> "store_add_memory"

\* search (its failure is an empty list), decision_engine.decide, and the
\* Noop branch of the dispatch.
Decide ==
    /\ pc = "decide"
    /\ last' = [op |-> "decide", ok |-> TRUE]
    /\ \E d \in Decisions(OldIds \cup stored) :
         IF DispatchPc(d) = "continue"
         THEN /\ skipped' = skipped + 1
              /\ ContinueLoop
         ELSE /\ decision' = Some(d)
              /\ pc' = DispatchPc(d)
              /\ UNCHANGED <<skipped, idx, memory_id, new_chunks, eidx,
                             concept_links>>
    /\ UNCHANGED <<client_vars, extraction, memories_to_store,
                   added_ids, updated_ids, entities_linked,
                   relations_created, chunks_created, rel_vars, result,
                   store_vars>>
    /\ UNCHANGED component_vars

\* update_memory_internal, and the Update branch after it.
UpdateMemoryInternal ==
    /\ pc = "update_memory"
    /\ LET d == Unwrap(decision)
           target_id == Unwrap(d.target_memory_id)
           merged == Unwrap(d.merged_content) IN
       /\ log' = Append(log, Entry("updateMemory", idx, target_id, None, None,
                                   Some([text |-> merged])))
       /\ \E ok \in BOOLEAN :
            /\ last' = [op |-> "updateMemory", ok |-> ok]
            /\ IF ok
               THEN /\ overwritten' = overwritten \cup {target_id}
                    /\ updated_ids' = Append(updated_ids, target_id)
                    /\ memory_id' = Some(target_id)
                    /\ eidx' = 1
                    /\ pc' = "entities"
                    /\ UNCHANGED result
               ELSE /\ ReturnErr("Database")
                    /\ UNCHANGED <<overwritten, updated_ids, memory_id, eidx>>
    /\ UNCHANGED <<client_vars, extraction, memories_to_store,
                   idx, decision, new_chunks, concept_links, added_ids,
                   skipped, entities_linked, relations_created,
                   chunks_created, rel_vars, next_uuid, stored>>
    /\ UNCHANGED component_vars

\* The Delete branch: delete_memory on the target, its result dropped.
DeleteTarget ==
    /\ pc = "delete_target"
    /\ LET target_id == Unwrap(Unwrap(decision).target_memory_id) IN
       log' = Append(log, Entry("deleteMemory", idx, target_id, None, None,
                                None))
    /\ \E ok \in BOOLEAN : last' = [op |-> "deleteMemory", ok |-> ok]
    /\ pc' = "store_add_memory"
    /\ UNCHANGED <<client_vars, extraction, memories_to_store,
                   loop_vars, count_vars, rel_vars, result, next_uuid,
                   stored, overwritten>>
    /\ UNCHANGED component_vars


\* -------------------------------------------------------- store_new_memory

\* The statements of store_new_memory in program order, then the statement
\* of the dispatch that follows its return.
\* store_new_memory with the user link requested before the embedding.
StoreNewSteps_LinkFirst ==
    << "store_add_memory", "store_link_user", "store_embedding",
       "store_chunk", "after_store" >>

StoreNewSteps ==
    << "store_add_memory", "store_embedding", "store_link_user",
       "store_chunk", "after_store" >>

StepAfter(step) ==
    StoreNewSteps[(CHOOSE i \in DOMAIN StoreNewSteps :
                      StoreNewSteps[i] = step) + 1]

\* AddMemoryInput
AddMemoryRequest(m, id, memory) ==
    Entry("addMemory", m, id, None, None,
          Some([text |-> memory.text, memory_type |-> memory.memory_type,
                certainty |-> memory.certainty,
                importance |-> memory.importance]))

\* AddEmbeddingInput: keyed on the store-internal id.
AddEmbeddingRequest(m, id) ==
    Entry("addMemoryEmbedding", m, InternalId(id), None, None, None)

\* LinkUserInput: keyed on the minted id.
\* A user link keyed on the internal id instead of the memory id.
LinkUserRequest_Internal(m, id) ==
    Entry("linkUserToMemory", m, InternalId(id), None, None, None)

LinkUserRequest(m, id) ==
    Entry("linkUserToMemory", m, id, None, None, None)

\* Mint the id and call addMemory; its failure ends the call.
StoreAddMemory ==
    /\ pc = "store_add_memory"
    /\ next_uuid' = next_uuid + 1
    /\ LET id == MintedId(next_uuid + 1) IN
       /\ log' = Append(log, AddMemoryRequest(idx, id, Memory))
       /\ \E ok \in BOOLEAN :
            /\ last' = [op |-> "addMemory", ok |-> ok]
            /\ IF ok
               THEN /\ stored' = stored \cup {id}
                    /\ memory_id' = Some(id)
                    /\ pc' = StepAfter("store_add_memory")
                    /\ UNCHANGED result
               ELSE /\ ReturnErr("Database")
                    /\ UNCHANGED <<stored, memory_id>>
    /\ UNCHANGED <<client_vars, extraction, memories_to_store,
                   idx, decision, new_chunks, eidx, concept_links,
                   count_vars, rel_vars, overwritten>>
    /\ UNCHANGED component_vars

\* addMemoryEmbedding, best effort.
StoreEmbedding ==
    /\ pc = "store_embedding"
    /\ log' = Append(log, AddEmbeddingRequest(idx, Unwrap(memory_id)))
    /\ \E ok \in BOOLEAN : last' = [op |-> "addMemoryEmbedding", ok |-> ok]
    /\ pc' = StepAfter("store_embedding")
    /\ UNCHANGED <<client_vars, extraction, memories_to_store,
                   loop_vars, count_vars, rel_vars, result, next_uuid,
                   stored, overwritten>>
    /\ UNCHANGED component_vars

\* linkUserToMemory, its result dropped.
\* A user link whose failure is propagated like addMemory's.
StoreLinkUser_Fatal ==
    /\ pc = "store_link_user"
    /\ log' = Append(log, LinkUserRequest(idx, Unwrap(memory_id)))
    /\ \E ok \in BOOLEAN :
         /\ last' = [op |-> "linkUserToMemory", ok |-> ok]
         /\ IF ok THEN pc' = StepAfter("store_link_user") /\ UNCHANGED result
                  ELSE ReturnErr("Database")
    /\ UNCHANGED <<client_vars, extraction, memories_to_store,
                   loop_vars, count_vars, rel_vars, next_uuid,
                   stored, overwritten>>
    /\ UNCHANGED component_vars

StoreLinkUser ==
    /\ pc = "store_link_user"
    /\ log' = Append(log, LinkUserRequest(idx, Unwrap(memory_id)))
    /\ \E ok \in BOOLEAN : last' = [op |-> "linkUserToMemory", ok |-> ok]
    /\ pc' = StepAfter("store_link_user")
    /\ UNCHANGED <<client_vars, extraction, memories_to_store,
                   loop_vars, count_vars, rel_vars, result, next_uuid,
                   stored, overwritten>>
    /\ UNCHANGED component_vars

\* Chunking of a text above the threshold; a failure leaves chunk_count 0.
StoreChunk ==
    /\ pc = "store_chunk"
    /\ IF should_chunk(Memory.text)
       THEN /\ log' = Append(log, Entry("addMemoryWithChunking", idx,
                                        Unwrap(memory_id), None, None, None))
            /\ \E ok \in BOOLEAN :
                 /\ last' = [op |-> "addMemoryWithChunking", ok |-> ok]
                 /\ IF ok THEN new_chunks' \in ChunkCounts
                          ELSE new_chunks' = 0
       ELSE /\ new_chunks' = 0
            /\ UNCHANGED <<log, last>>
    /\ pc' = StepAfter("store_chunk")
    /\ UNCHANGED <<client_vars, extraction, memories_to_store,
                   idx, decision, memory_id, eidx, concept_links,
                   count_vars, rel_vars, result, next_uuid, stored,
                   overwritten>>
    /\ UNCHANGED component_vars

\* The reasoning edge a branch of the dispatch requests after the store.
\* A Supersede edge drawn from the superseded memory to the new one.
BranchRelation_Reversed(m, d, new_id) ==
    CASE d.operation = "Supersede" /\ IsSome(d.supersedes_memory_id) ->
            Some(add_relation(m, Unwrap(d.supersedes_memory_id), new_id,
                              "Supports", SupersedeStrength))
      [] d.operation = "Contradict" /\ IsSome(d.contradicts_memory_id) ->
            Some(add_relation(m, new_id, Unwrap(d.contradicts_memory_id),
                              "Contradicts", ContradictStrength))
      [] OTHER -> None

BranchRelation(m, d, new_id) ==
    CASE d.operation = "Supersede" /\ IsSome(d.supersedes_memory_id) ->
            Some(add_relation(m, new_id, Unwrap(d.supersedes_memory_id),
                              "Supports", SupersedeStrength))
      [] d.operation = "Contradict" /\ IsSome(d.contradicts_memory_id) ->
            Some(add_relation(m, new_id, Unwrap(d.contradicts_memory_id),
                              "Contradicts", ContradictStrength))
      [] OTHER -> None

\* The branches that push the new id to added_ids.
PushesAdded(d) ==
    d.operation \in {"Supersede", "Contradict", "Delete", "Add"}

\* After store_new_memory returned: the rest of the branch.
AfterStore ==
    /\ pc = "after_store"
    /\ LET d == Unwrap(decision)
           new_id == Unwrap(memory_id)
           rel == BranchRelation(idx, d, new_id) IN
       /\ chunks_created' = chunks_created + new_chunks
       /\ IF IsSome(rel)
          THEN /\ log' = Append(log, Unwrap(rel))
               /\ \E ok \in BOOLEAN :
                    last' = [op |-> Unwrap(rel).op, ok |-> ok]
          ELSE UNCHANGED <<log, last>>
       /\ added_ids' = IF PushesAdded(d) THEN Append(added_ids, new_id)
                       ELSE added_ids
    /\ eidx' = 1
    /\ pc' = "entities"
    /\ UNCHANGED <<client_vars, extraction, memories_to_store,
                   idx, decision, memory_id, new_chunks, concept_links,
                   updated_ids, skipped, entities_linked, relations_created,
                   rel_vars, result, next_uuid, stored, overwritten>>
    /\ UNCHANGED component_vars

\* ------------------------------------------- entity and ontology links

\* extraction.entities.iter().find(|e| e.id == entity_id)
FindEntity(entities, entity_id) ==
    IF \E i \in DOMAIN entities : entities[i].id = entity_id
    THEN Some(entities[CHOOSE i \in DOMAIN entities :
                 entities[i].id = entity_id
                 /\ \A j \in 1..(i - 1) : entities[j].id # entity_id])
    ELSE None

DbEntityId(entity) == <<"ent", entity.name>>

\* One turn of the entity loop, or its end and the concept mapping.
LinkEntity ==
    /\ pc = "entities"
    /\ IF eidx > Len(Memory.entities)
       THEN /\ concept_links' = ConceptLinks(ontology_loaded, Memory)
            /\ pc' = "concepts"
            /\ UNCHANGED <<eidx, entities_linked, log, last>>
       ELSE /\ eidx' = eidx + 1
            /\ UNCHANGED <<pc, concept_links>>
            /\ LET found == FindEntity(extraction.entities,
                                       Memory.entities[eidx]) IN
               IF ~IsSome(found)
               THEN UNCHANGED <<entities_linked, log, last>>
               ELSE LET entity == Unwrap(found)
                        create == Entry("getOrCreateEntity", idx, entity.name,
                                        None, None, None)
                        link == Entry("linkEntityToMemory", idx,
                                      DbEntityId(entity), Unwrap(memory_id),
                                      None, None) IN
                    \E created \in BOOLEAN, linked \in BOOLEAN :
                       IF ~created
                       THEN /\ log' = Append(log, create)
                            /\ last' = [op |-> "getOrCreateEntity",
                                        ok |-> FALSE]
                            /\ UNCHANGED entities_linked
                       ELSE /\ log' = log \o <<create, link>>
                            /\ last' = [op |-> "linkEntityToMemory",
                                        ok |-> linked]
                            /\ entities_linked' =
                                 IF linked THEN entities_linked + 1
                                 ELSE entities_linked
    /\ UNCHANGED <<client_vars, extraction, memories_to_store,
                   idx, decision, memory_id, new_chunks, added_ids,
                   updated_ids, skipped, relations_created, chunks_created,
                   rel_vars, result, next_uuid, stored, overwritten>>
    /\ UNCHANGED component_vars

\* One linkMemoryToInstanceOf, or the end of this memory's iteration.
LinkConcept ==
    /\ pc = "concepts"
    /\ IF concept_links = <<>>
       THEN /\ ContinueLoop
            /\ UNCHANGED <<log, last>>
       ELSE /\ log' = Append(log, Entry("linkMemoryToInstanceOf", idx,
                                        Unwrap(memory_id),
                                        Head(concept_links).concept_id,
                                        Some(Head(concept_links).confidence),
                                        None))
            /\ \E ok \in BOOLEAN :
                 last' = [op |-> "linkMemoryToInstanceOf", ok |-> ok]
            /\ concept_links' = Tail(concept_links)
            /\ UNCHANGED <<pc, idx, decision, memory_id, new_chunks, eidx>>
    /\ UNCHANGED <<client_vars, extraction, memories_to_store,
                   count_vars, rel_vars, result, next_uuid, stored,
                   overwritten>>
    /\ UNCHANGED component_vars


\* ------------------------------------------------- cross-memory relations

\* HashMap::insert
Insert(map, k, v) ==
    [x \in DOMAIN map \cup {k} |-> IF x = k THEN v ELSE map[x]]

\* The keys one memory contributes: its lower-cased text and, when that is
\* longer than KeyPrefixChars, its prefix.
InsertMemory(map, text, id) ==
    LET normalized == to_lowercase(text)
        short_key == safe_truncate(normalized, KeyPrefixChars)
        m1 == Insert(map, normalized, id) IN
    IF Len(short_key) < Len(normalized) THEN Insert(m1, short_key, id) ELSE m1

\* The content -> id map: memory idx (0-based) gets added_ids[idx] while
\* idx < added_ids.len().
RECURSIVE BuildMapFrom(_, _, _, _)
BuildMapFrom(mems, added, i, map) ==
    IF i > Len(mems) THEN map
    ELSE BuildMapFrom(mems, added, i + 1,
                      IF i - 1 < Len(added)
                      THEN InsertMemory(map, mems[i].text, added[i])
                      ELSE map)

BuildMemoryContentToId(mems, added) == BuildMapFrom(mems, added, 1, EmptyMap)

BuildMap ==
    /\ pc = "build_map"
    /\ memory_content_to_id' =
           BuildMemoryContentToId(memories_to_store, added_ids)
    /\ ridx' = 1
    /\ pc' = "relations"
    /\ UNCHANGED <<client_vars, extraction, memories_to_store,
                   loop_vars, count_vars, result, store_vars, last>>
    /\ UNCHANGED component_vars

\* The ids a relation endpoint can resolve to: the exact entry of the
\* lower-cased content, else any entry whose key contains it or is
\* contained in it (the map's iteration order picks which).
Resolve(map, content) ==
    LET lc == to_lowercase(content) IN
    IF lc \in DOMAIN map THEN { map[lc] }
    ELSE { map[k] : k \in { k \in DOMAIN map :
                              contains(k, lc) \/ contains(lc, k) } }

\* The write path's decoding of a relation label.
DecodeRelationType(label) ==
    LET u == to_uppercase(label) IN
    CASE u = <<"I","M","P","L","I","E","S">> -> "Implies"
      [] u = <<"B","E","C","A","U","S","E">> -> "Because"
      [] u = <<"C","O","N","T","R","A","D","I","C","T","S">> -> "Contradicts"
      [] u = <<"S","U","P","P","O","R","T","S">> -> "Supports"
      [] OTHER -> "Implies"

\* One turn of the relation loop, or its end and the Ok result.
Relation ==
    /\ pc = "relations"
    /\ IF ridx > Len(extraction.relations)
       THEN /\ result' = Some([ok |-> TRUE, added |-> added_ids,
                               updated |-> updated_ids, deleted |-> <<>>,
                               skipped |-> skipped,
                               entities_extracted |-> entities_linked,
                               reasoning_relations_created |->
                                   relations_created,
                               chunks_created |-> chunks_created])
            /\ pc' = "returned"
            /\ UNCHANGED <<ridx, relations_created, log, last>>
       ELSE /\ ridx' = ridx + 1
            /\ UNCHANGED <<pc, result>>
            /\ LET relation == extraction.relations[ridx]
                   from_ids == Resolve(memory_content_to_id,
                                       relation.from_memory_content)
                   to_ids == Resolve(memory_content_to_id,
                                     relation.to_memory_content) IN
               IF from_ids = {} \/ to_ids = {}
               THEN UNCHANGED <<relations_created, log, last>>
               ELSE \E from \in from_ids, to \in to_ids, ok \in BOOLEAN :
                      LET req == add_relation(0, from, to,
                                   DecodeRelationType(relation.relation_type),
                                   RelationStrength) IN
                      /\ log' = Append(log, req)
                      /\ last' = [op |-> req.op, ok |-> ok]
                      /\ relations_created' =
                            IF ok THEN relations_created + 1
                            ELSE relations_created
    /\ UNCHANGED <<client_vars, extraction, memories_to_store,
                   loop_vars, added_ids, updated_ids, skipped,
                   entities_linked, chunks_created, memory_content_to_id,
                   next_uuid, stored, overwritten>>
    /\ UNCHANGED component_vars

\* --------------------------------------------------------- rank_and_filter

\* Longest list handed to rank_and_filter.
MaxResults == 3

\* SearchConfig::default().min_combined_score, in hundredths.
DefaultMinCombinedScore == 30

\* Scores are hundredths: rank_and_filter only compares them.
ResultIds == {"m1", "m2"}
ResultScores == {25, 55, 80}
Thresholds == {DefaultMinCombinedScore, 60}

\* The fields of a SearchResult that rank_and_filter reads, and its source,
\* which tells two results of one memory apart.
SearchResults ==
    [memory_id : ResultIds, combined_score : ResultScores,
     source : {"vector", "graph"}]

ResultLists == UNION { [1..n -> SearchResults] : n \in 0..MaxResults }

\* best_scores (a HashMap keyed by memory_id) as the list of its values;
\* Position is the place of a key's value, 0 when the key is absent.
Position(map, id) ==
    IF \E i \in DOMAIN map : map[i].memory_id = id
    THEN CHOOSE i \in DOMAIN map :
            /\ map[i].memory_id = id
            /\ \A j \in 1..(i - 1) : map[j].memory_id # id
    ELSE 0

\* An insert that keeps the value already stored under the key.
MapInsert_Append(map, r) == Append(map, r)

\* HashMap::insert: the value replaces the one stored under its key.
MapInsert(map, r) ==
    LET i == Position(map, r.memory_id) IN
    IF i = 0 THEN Append(map, r) ELSE [map EXCEPT ![i] = r]

\* A comparison that keeps the lower score.
ReplacesExisting_Lower(r, existing) ==
    r.combined_score < existing.combined_score

\* The guard of the insert over an existing value.
ReplacesExisting(r, existing) ==
    r.combined_score > existing.combined_score

\* The loop over results.
RECURSIVE BestScores(_, _)
BestScores(results, map) ==
    IF results = <<>> THEN map
    ELSE LET r == Head(results)
             i == Position(map, r.memory_id) IN
         BestScores(Tail(results),
                    IF i = 0 THEN MapInsert(map, r)
                    ELSE IF ReplacesExisting(r, map[i])
                         THEN MapInsert(map, r) ELSE map)

Perms(S) ==
    { p \in [1..Cardinality(S) -> S] :
        \A i, j \in 1..Cardinality(S) : i # j => p[i] # p[j] }

\* HashMap::into_values: the values in the map's iteration order, which the
\* HashMap does not specify.
IterationOrders(map) ==
    { [i \in DOMAIN map |-> map[p[i]]] : p \in Perms(DOMAIN map) }

\* One insertion of the stable sort by descending combined_score: x goes
\* behind every element that does not compare lower.
SortInsert(sorted, x) ==
    LET k == Cardinality({ i \in DOMAIN sorted :
                 sorted[i].combined_score >= x.combined_score }) IN
    SubSeq(sorted, 1, k) \o <<x>> \o SubSeq(sorted, k + 1, Len(sorted))

\* Vec::sort_by(|a, b| b.combined_score.partial_cmp(&a.combined_score))
RECURSIVE SortByCombinedDesc(_, _)
SortByCombinedDesc(seq, sorted) ==
    IF seq = <<>> THEN sorted
    ELSE SortByCombinedDesc(Tail(seq), SortInsert(sorted, Head(seq)))

\* The filter and the sort over the values as iterated.
FilterAndSort(values, min_combined_score) ==
    SortByCombinedDesc(
        SelectSeq(values,
                  LAMBDA r : r.combined_score >= min_combined_score),
        <<>>)

\* rank_and_filter(results, min_combined_score)
RankAndFilter ==
    /\ rf_filtered_results = None
    /\ \E values \in IterationOrders(BestScores(rf_results, <<>>)) :
         rf_filtered_results' =
             Some(FilterAndSort(values, rf_min_combined_score))
    /\ UNCHANGED <<rf_results, rf_min_combined_score>>
    /\ UNCHANGED <<vars, expand_vars, engine_vars, ext_vars>>

InitRank ==
    /\ PipelineIdle /\ ExpandIdle /\ EngineIdle /\ ExtIdle
    /\ rf_results \in ResultLists
    /\ rf_min_combined_score \in Thresholds
    /\ rf_filtered_results = None

NextRank == RankAndFilter

SpecRank == InitRank /\ [][NextRank]_all_vars

\* ------------------------------------------------------- graph expansion

\* Most vector hits handed to graph_expansion_phase.
MaxSeeds == 2

\* Largest max_depth handed to graph_expansion_phase.
MaxDepth == 2

\* The vector hits: the first n of these, with their combined scores in
\* hundredths.
SeedPool ==
    << [memory_id |-> "A", combined_score |-> 80],
       [memory_id |-> "B", combined_score |-> 62],
       [memory_id |-> "C", combined_score |-> 71] >>

VectorHits(n) == [i \in 1..n |-> SeedPool[((i - 1) % Len(SeedPool)) + 1]]

\* SearchConfig::default().edge_types
DefaultEdgeTypes == << "BECAUSE", "IMPLIES", "MEMORY_RELATION" >>

\* The store's contents the expansion runs on: the chain of the spec's
\* example, a graph with a cycle, a self-loop and a double connection, and a
\* node with four neighbours.
GraphPool ==
    { << [from |-> "A", to |-> "B", label |-> "IMPLIES"],
         [from |-> "B", to |-> "C", label |-> "IMPLIES"],
         [from |-> "C", to |-> "D", label |-> "IMPLIES"] >>,
      << [from |-> "A", to |-> "B", label |-> "IMPLIES"],
         [from |-> "B", to |-> "A", label |-> "BECAUSE"],
         [from |-> "B", to |-> "C", label |-> "MEMORY_RELATION"],
         [from |-> "C", to |-> "C", label |-> "IMPLIES"],
         [from |-> "A", to |-> "C", label |-> "CONTRADICTS"] >>,
      << [from |-> "A", to |-> "B", label |-> "IMPLIES"],
         [from |-> "A", to |-> "C", label |-> "CONTRADICTS"],
         [from |-> "A", to |-> "D", label |-> "MEMORY_RELATION"],
         [from |-> "E", to |-> "A", label |-> "BECAUSE"],
         [from |-> "D", to |-> "E", label |-> "IMPLIES"] >> }

\* The eight lists of a GraphConnectionsResponse in the order
\* expand_from_node processes them: the store's edge label and direction,
\* the edge_type the results carry, and the weight in hundredths
\* (edge_weights, scaled by 0.9, 0.85, 0.8, 0.6 for incoming edges).
Collections ==
    << [label |-> "IMPLIES", out |-> TRUE,
        edge_type |-> "IMPLIES", weight |-> 90],
       [label |-> "BECAUSE", out |-> TRUE,
        edge_type |-> "BECAUSE", weight |-> 100],
       [label |-> "CONTRADICTS", out |-> TRUE,
        edge_type |-> "CONTRADICTS", weight |-> 40],
       [label |-> "MEMORY_RELATION", out |-> TRUE,
        edge_type |-> "MEMORY_RELATION", weight |-> 70],
       [label |-> "IMPLIES", out |-> FALSE,
        edge_type |-> "IMPLIES_IN", weight |-> 81],
       [label |-> "BECAUSE", out |-> FALSE,
        edge_type |-> "BECAUSE_IN", weight |-> 85],
       [label |-> "CONTRADICTS", out |-> FALSE,
        edge_type |-> "CONTRADICTS_IN", weight |-> 32],
       [label |-> "MEMORY_RELATION", out |-> FALSE,
        edge_type |-> "MEMORY_RELATION_IN", weight |-> 42] >>

\* getMemoryLogicalConnections: one list of the response for node_id.
Connected(edges, node_id, c) ==
    LET sel == SelectSeq(edges,
                   LAMBDA e : /\ e.label = c.label
                              /\ IF c.out THEN e.from = node_id
                                          ELSE e.to = node_id) IN
    [i \in DOMAIN sel |-> IF c.out THEN sel[i].to ELSE sel[i].from]

\* calculate_graph_score: the edge weight attenuates the parent's score
\* (a score at one hop more is in units one hundred times smaller).
calculate_graph_score(edge_weight, parent_score) == edge_weight * parent_score

\* process_edge_collection: one result per memory of the list that is not
\* visited.  hops is not a field of SearchResult: it records how many edges
\* from the seed the traversal had followed when it emitted the result.
process_edge_collection(memories, c, parent_score, visited, hops) ==
    LET kept == SelectSeq(memories, LAMBDA id : id \notin visited) IN
    [i \in DOMAIN kept |->
        [memory_id |-> kept[i],
         graph_score |-> calculate_graph_score(c.weight, parent_score),
         depth |-> 1, source |-> "graph",
         edge_path |-> << c.edge_type >>,
         hops |-> hops]]

\* The eight process_edge_collection calls of expand_from_node, from the
\* k-th on.
RECURSIVE ProcessCollections(_, _, _, _, _, _)
ProcessCollections(k, edges, node_id, parent_score, visited, hops) ==
    IF k > Len(Collections) THEN <<>>
    ELSE process_edge_collection(
             Connected(edges, node_id, Collections[k]),
             Collections[k], parent_score, visited, hops)
         \o ProcessCollections(k + 1, edges, node_id, parent_score,
                               visited, hops)

\* neighbors: (memory_id, graph_score) of every result, in the same order.
Neighbors(results) ==
    [i \in DOMAIN results |->
        [memory_id |-> results[i].memory_id,
         graph_score |-> results[i].graph_score]]

\* One insertion of the stable sort by descending graph_score.
NeighborInsert(sorted, x) ==
    LET k == Cardinality({ i \in DOMAIN sorted :
                 sorted[i].graph_score >= x.graph_score }) IN
    SubSeq(sorted, 1, k) \o <<x>> \o SubSeq(sorted, k + 1, Len(sorted))

RECURSIVE SortNeighbors(_, _)
SortNeighbors(seq, sorted) ==
    IF seq = <<>> THEN sorted
    ELSE SortNeighbors(Tail(seq), NeighborInsert(sorted, Head(seq)))

\* A continuation list taken without sorting.
Continuations_Unsorted(neighbors) ==
    SubSeq(neighbors, 1, IF Len(neighbors) < 3 THEN Len(neighbors) ELSE 3)

\* neighbors.sort_by(descending score), then into_iter().take(3)
Continuations(neighbors) ==
    LET sorted == SortNeighbors(neighbors, <<>>) IN
    SubSeq(sorted, 1, IF Len(sorted) < 3 THEN Len(sorted) ELSE 3)

\* A continuation that does not consult the visited set.
ShouldRecurse_Always(visited, neighbor_id) == TRUE

\* if !visited.contains(&neighbor_id)
ShouldRecurse(visited, neighbor_id) == neighbor_id \notin visited

\* A call of expand_from_node that has not fetched its connections yet.
Frame(node_id, current_depth, parent_score) ==
    [node_id |-> node_id, current_depth |-> current_depth,
     parent_score |-> parent_score, fetched |-> FALSE,
     results |-> <<>>, neighbors |-> <<>>]

\* The task spawned for one hit: its visited set, the expand_from_node
\* calls in progress (innermost last), what it returned, and the nodes whose
\* connections it fetched.
Task(hit) ==
    [visited |-> { hit.memory_id },
     stack |-> << Frame(hit.memory_id, 1, hit.combined_score) >>,
     status |-> "running", results |-> <<>>, fetched |-> <<>>]

Top(t) == expansion_tasks[t].stack[Len(expansion_tasks[t].stack)]

SetTop(stack, frame) == [stack EXCEPT ![Len(stack)] = frame]

Pop(stack) == SubSeq(stack, 1, Len(stack) - 1)

expand_unchanged == <<graph_edges, vector_hits, max_depth, edge_types>>

\* graph_expansion_phase up to the end of its spawn loop.
SpawnTasks ==
    /\ expansion_tasks = <<>>
    /\ all_results = None
    /\ expansion_tasks' = [i \in DOMAIN vector_hits |-> Task(vector_hits[i])]
    /\ IF vector_hits = <<>> THEN all_results' = Some(<<>>)
       ELSE UNCHANGED all_results
    /\ UNCHANGED <<expand_unchanged, vars, rank_vars, engine_vars, ext_vars>>

\* How the store call of expand_from_node can end: with an error, with a
\* panic, or with the connections.
FetchOutcomes == << "err", "panicked", "ok" >>

\* expand_from_node: the store call and the eight collections; a failed call
\* is returned through every caller and ends the task with Err, a panic
\* under the call unwinds the task.
ExpandFetch(t) ==
    /\ expansion_tasks[t].status = "running"
    /\ ~Top(t).fetched
    /\ LET task == expansion_tasks[t]
           f == Top(t)
           results == ProcessCollections(1, graph_edges, f.node_id,
                          f.parent_score, task.visited, Len(task.stack))
           continue == IF f.current_depth < max_depth
                       THEN Continuations(Neighbors(results)) ELSE <<>> IN
       \E k \in DOMAIN FetchOutcomes :
          LET outcome == FetchOutcomes[k] IN
          expansion_tasks' = [expansion_tasks EXCEPT ![t] =
             IF outcome = "ok"
             THEN [task EXCEPT
                     !.stack = SetTop(task.stack,
                                  [f EXCEPT !.fetched = TRUE,
                                            !.results = results,
                                            !.neighbors = continue]),
                     !.fetched = Append(task.fetched, f.node_id)]
             ELSE [task EXCEPT !.stack = <<>>, !.status = outcome,
                               !.fetched = Append(task.fetched, f.node_id)]]
    /\ UNCHANGED <<expand_unchanged, all_results, vars, rank_vars,
                   engine_vars, ext_vars>>

\* One turn of the continuation loop: recurse into the neighbour unless it
\* is visited.
ExpandContinue(t) ==
    /\ expansion_tasks[t].status = "running"
    /\ Top(t).fetched
    /\ Top(t).neighbors # <<>>
    /\ LET task == expansion_tasks[t]
           f == Top(t)
           n == Head(f.neighbors)
           rest == SetTop(task.stack,
                          [f EXCEPT !.neighbors = Tail(f.neighbors)]) IN
       expansion_tasks' = [expansion_tasks EXCEPT ![t] =
          IF ShouldRecurse(task.visited, n.memory_id)
          THEN [task EXCEPT
                  !.visited = task.visited \cup { n.memory_id },
                  !.stack = Append(rest,
                                Frame(n.memory_id, f.current_depth + 1,
                                      n.graph_score))]
          ELSE [task EXCEPT !.stack = rest]]
    /\ UNCHANGED <<expand_unchanged, all_results, vars, rank_vars,
                   engine_vars, ext_vars>>

\* expand_from_node returns Ok(results): to its caller, which extends its
\* own results, or to the task.
ExpandReturn(t) ==
    /\ expansion_tasks[t].status = "running"
    /\ Top(t).fetched
    /\ Top(t).neighbors = <<>>
    /\ LET task == expansion_tasks[t]
           f == Top(t)
           callers == Pop(task.stack) IN
       expansion_tasks' = [expansion_tasks EXCEPT ![t] =
          IF callers = <<>>
          THEN [task EXCEPT !.stack = <<>>, !.status = "ok",
                            !.results = f.results]
          ELSE [task EXCEPT !.stack =
                  SetTop(callers,
                         [callers[Len(callers)] EXCEPT
                            !.results = @ \o f.results])]]
    /\ UNCHANGED <<expand_unchanged, all_results, vars, rank_vars,
                   engine_vars, ext_vars>>

\* A join that gives up at the first task that failed or panicked.
RECURSIVE Collected_UntilFailure(_, _)
Collected_UntilFailure(tasks, k) ==
    IF k > Len(tasks) \/ tasks[k].status # "ok" THEN <<>>
    ELSE tasks[k].results \o Collected_UntilFailure(tasks, k + 1)

\* The results of the tasks that returned Ok, in task order.
RECURSIVE Collected(_, _)
Collected(tasks, k) ==
    IF k > Len(tasks) THEN <<>>
    ELSE (IF tasks[k].status = "ok" THEN tasks[k].results ELSE <<>>)
         \o Collected(tasks, k + 1)

\* graph_expansion_phase: the loop that awaits the tasks, and Ok(all_results).
JoinTasks ==
    /\ expansion_tasks # <<>>
    /\ all_results = None
    /\ \A t \in DOMAIN expansion_tasks : expansion_tasks[t].status # "running"
    /\ all_results' = Some(Collected(expansion_tasks, 1))
    /\ UNCHANGED <<expand_unchanged, expansion_tasks, vars, rank_vars,
                   engine_vars, ext_vars>>

InitExpand ==
    /\ PipelineIdle /\ RankIdle /\ EngineIdle /\ ExtIdle
    /\ graph_edges \in GraphPool
    /\ \E n \in 0..MaxSeeds : vector_hits = VectorHits(n)
    /\ max_depth \in 0..MaxDepth
    /\ edge_types \in { DefaultEdgeTypes, << "IMPLIES" >> }
    /\ expansion_tasks = <<>>
    /\ all_results = None

NextExpand ==
    \/ SpawnTasks
    \/ \E t \in DOMAIN expansion_tasks : ExpandFetch(t)
    \/ \E t \in DOMAIN expansion_tasks : ExpandContinue(t)
    \/ \E t \in DOMAIN expansion_tasks : ExpandReturn(t)
    \/ JoinTasks

SpecExpand == InitExpand /\ [][NextExpand]_all_vars

\* ------------------------------------------ ReasoningEngine::add_relation

\* Capacity of the engine's relation cache (cache_size).
CacheSize == 1

\* Memory ids as the engine sees them: strings, two of which agree on
\* their first eight characters.
Id_short == << "a", "1" >>
Id_long1 == << "m", "e", "m", "_", "a", "b", "c", "d", "1" >>
Id_long2 == << "m", "e", "m", "_", "a", "b", "c", "d", "2" >>

ReasoningTypes == {"Implies", "Because", "Contradicts", "Supports"}

\* The strengths a caller can pass (i32), the extremes included.
StrengthInputs == { -I32Max - 1, -1, 0, 50, 100, 101, I32Max }

\* format!("rel_{}_{}", safe_truncate(from_id, 8), safe_truncate(to_id, 8))
RelationId(from_id, to_id) ==
    << "r", "e", "l", "_" >> \o safe_truncate(from_id, 8)
        \o << "_" >> \o safe_truncate(to_id, 8)

\* The ReasoningRelation add_relation builds and returns.
ReasoningRelation(from_id, to_id, relation_type, strength) ==
    [relation_id |-> RelationId(from_id, to_id),
     from_memory_id |-> from_id, to_memory_id |-> to_id,
     relation_type |-> relation_type,
     strength |-> clamp(strength)]

\* LruCache::put on the cache as the list of its entries, least recently
\* used first.
CachePut(cache, relation) ==
    LET others == SelectSeq(cache,
                      LAMBDA e : e.relation_id # relation.relation_id)
        room == IF Len(others) >= CacheSize
                THEN SubSeq(others, Len(others) - CacheSize + 2, Len(others))
                ELSE others IN
    Append(room, relation)

\* add_relation(from_id, to_id, relation_type, strength, None)
AddRelation ==
    /\ ar_input = None
    /\ \E from_id \in { Id_short, Id_long1 },
          to_id \in { Id_long1, Id_long2 },
          relation_type \in ReasoningTypes,
          strength \in StrengthInputs,
          ok \in BOOLEAN :
         LET relation == ReasoningRelation(from_id, to_id, relation_type,
                                           strength) IN
         /\ ar_input' = Some([from_id |-> from_id, to_id |-> to_id,
                              relation_type |-> relation_type,
                              strength |-> strength])
         /\ ar_persisted' = Some(add_relation(0, from_id, to_id,
                                              relation_type, strength))
         /\ IF ok
            THEN /\ relation_cache' = CachePut(relation_cache, relation)
                 /\ ar_result' = Some([ok |-> TRUE, relation |-> relation])
            ELSE /\ UNCHANGED relation_cache
                 /\ ar_result' = Some(Err("Database"))
    /\ UNCHANGED <<vars, rank_vars, expand_vars, ext_vars>>

\* The caller has taken the result.
AddRelationReturned ==
    /\ ar_input # None
    /\ ar_input' = None /\ ar_persisted' = None /\ ar_result' = None
    /\ UNCHANGED <<relation_cache, vars, rank_vars, expand_vars, ext_vars>>

InitEngine ==
    /\ PipelineIdle /\ RankIdle /\ ExpandIdle /\ ExtIdle
    /\ EngineIdle

NextEngine == AddRelation \/ AddRelationReturned

SpecEngine == InitEngine /\ [][NextEngine]_all_vars

\* -------------------------------------- infer_relations, label decoding

\* Longest list of relations in one LLM reply.
MaxInferred == 2

L_because == <<"b","e","c","a","u","s","e">>
L_Supports == <<"S","u","p","p","o","r","t","s">>

\* The relation labels an extractor or an LLM can produce: the four edge
\* names, other spellings of them, another word, the empty string.
Labels ==
    { edge_name(t) : t \in ReasoningTypes }
        \cup { L_implies, L_because, L_Supports, L_other, <<>> }

\* An inferred-path decoding that lets an unknown label fall to Implies.
DecodeInferredType_Implies(label) ==
    CASE label = <<"I","M","P","L","I","E","S">> -> "Implies"
      [] label = <<"B","E","C","A","U","S","E">> -> "Because"
      [] label = <<"C","O","N","T","R","A","D","I","C","T","S">> -> "Contradicts"
      [] label = <<"S","U","P","P","O","R","T","S">> -> "Supports"
      [] OTHER -> "Implies"

\* infer_relations: the match on the "type" string of an inferred relation.
DecodeInferredType(label) ==
    CASE label = <<"I","M","P","L","I","E","S">> -> "Implies"
      [] label = <<"B","E","C","A","U","S","E">> -> "Because"
      [] label = <<"C","O","N","T","R","A","D","I","C","T","S">> -> "Contradicts"
      [] OTHER -> "Supports"

\* An i64 as its two 32-bit halves: the upper half, and the lower half read
\* as a signed number (the value is high * 2^32 + low mod 2^32).
I64(high, low) == [high |-> high, low |-> low]

\* i64 as i32: the low 32 bits, as a signed number.
I64AsI32(x) == x.low

\* The "strength" numbers of a reply (integers that fit an i64): 50, 150
\* and 2^32 + 50.
InferredStrengths == { I64(0, 50), I64(0, 150), I64(1, 50) }

\* One element of the reply's JSON array: "type" and "strength" may be
\* missing or of another JSON type (None); "from_id" and "to_id" are strings.
InferredItems ==
    [from_id : { Id_short }, to_id : { Id_long1 },
     type : Opt({ edge_name(t) : t \in ReasoningTypes }
                    \cup { L_because, L_other }),
     strength : Opt(InferredStrengths)]

\* What llm.generate can do: fail, answer something that is not a JSON
\* array, or answer an array.
LlmReplies ==
    { [kind |-> k, items |-> <<>>] : k \in { "err", "bad_json" } }
        \cup { [kind |-> "json", items |-> items] :
                 items \in UNION { [1..n -> InferredItems] :
                                     n \in 0..MaxInferred } }

\* The ReasoningRelation built from one element.
InferredRelation(item) ==
    [relation_id |-> << "i","n","f","e","r","r","e","d","_" >>
                        \o item.from_id \o << "_" >> \o item.to_id,
     from_memory_id |-> item.from_id, to_memory_id |-> item.to_id,
     relation_type |-> DecodeInferredType(Unwrap(item.type)),
     strength |-> I64AsI32(Unwrap(item.strength))]

\* filter_map: the elements with every field present, in order.
InferredRelations(items) ==
    LET kept == SelectSeq(items,
                    LAMBDA i : IsSome(i.type) /\ IsSome(i.strength)) IN
    [k \in DOMAIN kept |-> InferredRelation(kept[k])]

\* infer_relations(memory_id, context_memories)
InferRelations ==
    /\ ir_response = None
    /\ IF ~llm_provider
       THEN /\ ir_response' = Some([kind |-> "not_called", items |-> <<>>])
            /\ ir_result' = Some([ok |-> TRUE, relations |-> <<>>])
       ELSE \E reply \in LlmReplies :
              /\ ir_response' = Some(reply)
              /\ ir_result' =
                   Some(IF reply.kind = "err" THEN Err("LlmError")
                        ELSE [ok |-> TRUE,
                              relations |-> InferredRelations(reply.items)])
    /\ UNCHANGED <<llm_provider, rt_label, rt_rel_type>>
    /\ UNCHANGED not_infer

\* The caller has taken the result.
InferReturned ==
    /\ ir_response # None
    /\ ir_response' = None /\ ir_result' = None
    /\ UNCHANGED <<llm_provider, rt_label, rt_rel_type>>
    /\ UNCHANGED not_infer

\* add_memory's relation loop: the match that gives rel_type for the label
\* of one extracted relation.
MatchRelationType ==
    /\ rt_label = None
    /\ \E label \in Labels :
         /\ rt_label' = Some(label)
         /\ rt_rel_type' = Some(DecodeRelationType(label))
    /\ UNCHANGED <<llm_provider, ir_response, ir_result>>
    /\ UNCHANGED not_infer

\* rel_type has been handed to add_relation.
RelationTypeUsed ==
    /\ rt_label # None
    /\ rt_label' = None /\ rt_rel_type' = None
    /\ UNCHANGED <<llm_provider, ir_response, ir_result>>
    /\ UNCHANGED not_infer

InitInfer ==
    /\ PipelineIdle /\ RankIdle /\ ExpandIdle /\ EngineIdle
    /\ UpdateIdle /\ WarmIdle /\ InitIdle /\ ChainIdle
    /\ VectorIdle /\ SearchIdle /\ GraphIdle /\ TraversalIdle
    /\ llm_provider \in BOOLEAN
    /\ ir_response = None /\ ir_result = None
    /\ rt_label = None /\ rt_rel_type = None

NextInfer ==
    \/ InferRelations
    \/ InferReturned
    \/ MatchRelationType
    \/ RelationTypeUsed

SpecInfer == InitInfer /\ [][NextInfer]_all_vars

\* ---------------------------------------- ToolingManager::update_memory

\* Most update_memory calls in one behaviour.
MaxUpdates == 2

UpdateCertainty == 80
UpdateImportance == 50

\* self.embedder.model()
EmbeddingModel == "model"

\* The memories update_memory is called on: two the store holds, one it
\* does not.
StoredIds == { MintedId(1), MintedId(2) }
MissingId == MintedId(3)

\* The Memory node add_memory created for an id.
StoredNode(id) ==
    [id |-> InternalId(id), content |-> T_Ab, certainty |-> 90,
     importance |-> 70]

\* An embedding row: the internal id and the model it is keyed on.
EmbeddingRow(internal_id) ==
    [memory_id |-> internal_id, embedding_model |-> EmbeddingModel]

\* What getMemory can answer: an error, no memory, a node without an id,
\* or the node's internal id.
GetMemoryReplies(memories, id) ==
    { [ok |-> FALSE, memory |-> None] }
        \cup (IF id \in DOMAIN memories
              THEN { [ok |-> TRUE, memory |-> Some(memories[id].id)] }
              ELSE { [ok |-> TRUE, memory |-> None],
                     [ok |-> TRUE, memory |-> Some(<<>>)] })

\* A match arm that takes any node, also one without an id.
HasInternalId_AnyNode(reply) == reply.ok /\ IsSome(reply.memory)

\* Some(m) if !m.id.is_empty()
HasInternalId(reply) ==
    reply.ok /\ IsSome(reply.memory) /\ Unwrap(reply.memory) # <<>>

Request(op, id) == [op |-> op, id |-> id]

\* The memory whose internal id is given, rewritten by updateMemoryById.
UpdateById(memories, internal_id, content) ==
    [m \in DOMAIN memories |->
        IF memories[m].id = internal_id
        THEN [memories[m] EXCEPT !.content = content,
                                 !.certainty = UpdateCertainty,
                                 !.importance = UpdateImportance]
        ELSE memories[m]]

\* update_memory(memory_id, new_content, _user_id) with the outcomes of its
\* calls: the requests issued, the result, and the store afterwards.
update_memory(memories, embeddings, id, new_content, embed_ok, found, update_ok, found_again, insert_ok) ==
    LET get == Request("getMemory", id)
        internal_id == Unwrap(found.memory)
        update == Request("updateMemoryById", internal_id)
        same == [memories |-> memories, embeddings |-> embeddings] IN
    IF ~embed_ok
    THEN same @@ [requests |-> <<>>, result |-> Err("Embedding")]
    ELSE IF ~HasInternalId(found)
    THEN same @@ [requests |-> << get >>, result |-> Err("Database")]
    ELSE IF ~update_ok
    THEN same @@ [requests |-> << get, update >>,
                  result |-> Err("Database")]
    ELSE LET updated == UpdateById(memories, internal_id, new_content)
             insert == Request("addMemoryEmbedding",
                               Unwrap(found_again.memory)) IN
         IF ~HasInternalId(found_again)
         THEN [memories |-> updated, embeddings |-> embeddings,
               requests |-> << get, update, get >>,
               result |-> [ok |-> TRUE, value |-> TRUE]]
         ELSE [memories |-> updated,
               embeddings |->
                   IF insert_ok
                   THEN Append(embeddings,
                               EmbeddingRow(Unwrap(found_again.memory)))
                   ELSE embeddings,
               requests |-> << get, update, get, insert >>,
               result |-> [ok |-> TRUE, value |-> TRUE]]

\* One update_memory call.
UpdateMemory ==
    /\ um_input = None
    /\ um_calls < MaxUpdates
    /\ \E id \in StoredIds \cup { MissingId },
          new_content \in { T_b, T_cd },
          user_id \in { "u1", "u2" },
          embed_ok \in BOOLEAN, update_ok \in BOOLEAN,
          insert_ok \in BOOLEAN :
         \E found \in GetMemoryReplies(store_memories, id),
            found_again \in GetMemoryReplies(store_memories, id) :
            LET r == update_memory(store_memories, store_embeddings,
                                   id, new_content, embed_ok, found,
                                   update_ok, found_again, insert_ok) IN
            /\ um_input' = Some([memory_id |-> id,
                                 new_content |-> new_content,
                                 user_id |-> user_id])
            /\ um_requests' = r.requests
            /\ um_result' = Some(r.result)
            /\ store_memories' = r.memories
            /\ store_embeddings' = r.embeddings
    /\ um_calls' = um_calls + 1
    /\ UNCHANGED not_update

\* The caller has taken the result.
UpdateReturned ==
    /\ um_input # None
    /\ um_input' = None /\ um_requests' = <<>> /\ um_result' = None
    /\ UNCHANGED <<store_memories, store_embeddings, um_calls>>
    /\ UNCHANGED not_update

\* The store after add_memory calls that stored the two memories: each has
\* the embedding store_new_memory inserted, or none when that insert failed.
InitUpdate ==
    /\ PipelineIdle /\ RankIdle /\ ExpandIdle /\ EngineIdle
    /\ InferIdle /\ WarmIdle /\ InitIdle /\ ChainIdle
    /\ VectorIdle /\ SearchIdle /\ GraphIdle /\ TraversalIdle
    /\ store_memories = [id \in StoredIds |-> StoredNode(id)]
    /\ \E embedded \in SUBSET { 1, 2 } :
         store_embeddings =
             [i \in 1..Cardinality(embedded) |->
                 EmbeddingRow(InternalId(MintedId(
                     IF i = 1 /\ 1 \in embedded THEN 1 ELSE 2)))]
    /\ um_input = None /\ um_requests = <<>> /\ um_result = None
    /\ um_calls = 0

NextUpdate == UpdateMemory \/ UpdateReturned

SpecUpdate == InitUpdate /\ [][NextUpdate]_all_vars

\* --------------------------------------- ReasoningEngine::warm_up_cache

\* Most warm_up_cache calls in one behaviour (they may overlap).
MaxWarmUps == 2

\* The arguments of a call.
WarmUpInputs == [memory_id : Opt({ Id_short }), limit : { 1, 50 }]

\* What getRecentRelations can answer: an error, a result without a
\* relations field, or a list of relations.
RecentRelationsReplies ==
    { [ok |-> FALSE, relations |-> None] }
        \cup { [ok |-> TRUE, relations |-> r] :
                 r \in Opt({ <<>>, << "r1", "r2" >> }) }

\* A warm-up that never finds the engine warmed up.
SkipsWarmUp_Never(flag) == FALSE

\* if self.is_warmed_up.load(Ordering::Relaxed)
SkipsWarmUp(flag) == flag

\* A flag that is set whatever the store answered.
FlagAfterReply_Always(flag, reply) == TRUE

\* self.is_warmed_up.store(true, ..) in the Ok arm only.
FlagAfterReply(flag, reply) == IF reply.ok THEN TRUE ELSE flag

\* result.relations.map(|r| r.len()).unwrap_or(0), and Ok(0) on an error.
LoadedCount(reply) ==
    IF reply.ok /\ IsSome(reply.relations)
    THEN Len(Unwrap(reply.relations)) ELSE 0

\* A call begins: it returns the cache's length when the flag is set, and
\* issues getRecentRelations otherwise.  after is not program state: it
\* records the calls that had returned when this one began.
WarmUpBegin ==
    /\ Len(wu_calls) < MaxWarmUps
    /\ \E input \in WarmUpInputs :
         LET skip == SkipsWarmUp(is_warmed_up)
             call == [input |-> input,
                      pc |-> IF skip THEN "returned" ELSE "querying",
                      issued |-> ~skip,
                      reply |-> None,
                      result |-> IF skip THEN Some(Len(relation_cache))
                                 ELSE None,
                      after |-> { c \in DOMAIN wu_calls :
                                    wu_calls[c].pc = "returned" }] IN
         /\ wu_calls' = Append(wu_calls, call)
         /\ wu_requests' =
                IF skip THEN wu_requests
                ELSE Append(wu_requests,
                            [call |-> Len(wu_calls) + 1,
                             limit |-> input.limit,
                             memory_id |-> input.memory_id])
    /\ UNCHANGED is_warmed_up
    /\ UNCHANGED not_warm

\* The store answers a call's getRecentRelations, and the call returns.
WarmUpReply(c) ==
    /\ wu_calls[c].pc = "querying"
    /\ \E reply \in RecentRelationsReplies :
         /\ is_warmed_up' = FlagAfterReply(is_warmed_up, reply)
         /\ wu_calls' = [wu_calls EXCEPT ![c] =
                [@ EXCEPT !.pc = "returned", !.reply = Some(reply),
                          !.result = Some(LoadedCount(reply))]]
    /\ UNCHANGED wu_requests
    /\ UNCHANGED not_warm

\* ReasoningEngine::get_cache_stats
get_cache_stats ==
    [size |-> Len(relation_cache), capacity |-> CacheSize,
     is_warmed_up |-> is_warmed_up]

\* A new engine, or one whose cache add_relation has filled.
InitWarm ==
    /\ PipelineIdle /\ RankIdle /\ ExpandIdle
    /\ InferIdle /\ UpdateIdle /\ InitIdle /\ ChainIdle
    /\ VectorIdle /\ SearchIdle /\ GraphIdle /\ TraversalIdle
    /\ ar_input = None /\ ar_persisted = None /\ ar_result = None
    /\ relation_cache \in
          { <<>>, << ReasoningRelation(Id_short, Id_long1, "Implies", 80) >> }
    /\ is_warmed_up = FALSE
    /\ wu_calls = <<>>
    /\ wu_requests = <<>>

NextWarm ==
    \/ WarmUpBegin
    \/ \E c \in DOMAIN wu_calls : WarmUpReply(c)

SpecWarm == InitWarm /\ [][NextWarm]_all_vars

\* ------------------------------ HelixirClient::initialize, step by step

\* Most initialize calls in one behaviour (they may overlap).
MaxInits == 2

\* What the steps of initialize and close leave alone in the pipeline.
init_unchanged == <<pc, call_locals, last>>

\* A public operation begins: initialize itself, or ensure_initialized at the
\* head of add, search, update, delete and the other operations.  Both
\* return at once when the flag is set and go on to the health check
\* otherwise.
InitializeBegin ==
    /\ Len(init_calls) < MaxInits
    /\ \E via \in { "initialize", "ensure_initialized" } :
         init_calls' = Append(init_calls,
             [via |-> via,
              pc |-> IF is_initialized THEN "returned" ELSE "health_check",
              result |-> IF is_initialized THEN Some([ok |-> TRUE])
                         ELSE None])
    /\ UNCHANGED <<client_vars, ontology_loads, init_unchanged, not_init>>

\* db.health_check() answers; on success ToolingManager::initialize reads
\* needs_load and either starts the ontology load or returns, and
\* initialize sets the flag.
InitializeHealthChecked(c) ==
    /\ init_calls[c].pc = "health_check"
    /\ \E health_ok \in BOOLEAN :
         IF ~health_ok
         THEN /\ init_calls' = [init_calls EXCEPT ![c] =
                    [@ EXCEPT !.pc = "returned",
                              !.result = Some(Err("Database"))]]
              /\ UNCHANGED <<is_initialized, ontology_loads>>
         ELSE IF ~ontology_loaded
         THEN /\ init_calls' = [init_calls EXCEPT ![c].pc = "load"]
              /\ ontology_loads' = Append(ontology_loads,
                                          [call |-> c, loaded |-> FALSE])
              /\ UNCHANGED is_initialized
         ELSE /\ init_calls' = [init_calls EXCEPT ![c] =
                    [@ EXCEPT !.pc = "returned",
                              !.result = Some([ok |-> TRUE])]]
              /\ is_initialized' = TRUE
              /\ UNCHANGED ontology_loads
    /\ UNCHANGED <<ontology_loaded, init_unchanged, not_init>>

\* ontology_manager.load() answers: the loaded manager replaces the shared
\* one and the flag is set, or the error is returned.
InitializeLoaded(c) ==
    /\ init_calls[c].pc = "load"
    /\ \E load_ok \in BOOLEAN :
         LET r == ToolingInitializeResult(FALSE, load_ok) IN
         /\ init_calls' = [init_calls EXCEPT ![c] =
               [@ EXCEPT !.pc = "returned",
                         !.result = IF IsSome(r.err) THEN Some(Err("Tooling"))
                                    ELSE Some([ok |-> TRUE])]]
         /\ ontology_loaded' = (ontology_loaded \/ r.ontology_loaded)
         /\ is_initialized' = (is_initialized \/ ~IsSome(r.err))
         /\ ontology_loads' =
               [i \in DOMAIN ontology_loads |->
                   IF ontology_loads[i].call = c
                   THEN [ontology_loads[i] EXCEPT !.loaded = load_ok]
                   ELSE ontology_loads[i]]
    /\ UNCHANGED <<init_unchanged, not_init>>

\* HelixirClient::close between or during the calls.
InitializeClose ==
    /\ is_initialized
    /\ is_initialized' = FALSE
    /\ UNCHANGED <<ontology_loaded, init_calls, ontology_loads,
                   init_unchanged, not_init>>

InitInitialize ==
    /\ PipelineIdle /\ RankIdle /\ ExpandIdle /\ EngineIdle
    /\ InferIdle /\ UpdateIdle /\ WarmIdle /\ ChainIdle
    /\ VectorIdle /\ SearchIdle /\ GraphIdle /\ TraversalIdle
    /\ init_calls = <<>>
    /\ ontology_loads = <<>>

NextInitialize ==
    \/ InitializeBegin
    \/ \E c \in DOMAIN init_calls : InitializeHealthChecked(c)
    \/ \E c \in DOMAIN init_calls : InitializeLoaded(c)
    \/ InitializeClose

SpecInitialize == InitInitialize /\ [][NextInitialize]_all_vars

\* ------------------------------------------- ReasoningEngine::get_chain

\* Largest max_depth handed to get_chain.
MaxChainDepth == 3

\* The store's contents get_chain runs on: the graphs of the expansion and
\* one whose first node has three outgoing IMPLIES edges and two incoming
\* BECAUSE edges and lies on a cycle of IMPLIES edges.
ChainGraphs ==
    GraphPool \cup
    { << [from |-> "A", to |-> "B", label |-> "IMPLIES"],
         [from |-> "A", to |-> "C", label |-> "IMPLIES"],
         [from |-> "A", to |-> "D", label |-> "IMPLIES"],
         [from |-> "B", to |-> "A", label |-> "IMPLIES"],
         [from |-> "B", to |-> "C", label |-> "IMPLIES"],
         [from |-> "B", to |-> "D", label |-> "IMPLIES"],
         [from |-> "C", to |-> "A", label |-> "BECAUSE"],
         [from |-> "D", to |-> "A", label |-> "BECAUSE"],
         [from |-> "D", to |-> "C", label |-> "BECAUSE"] >> }

ChainSeeds == { "A", "B", "C" }
ChainTypes == { "causal", "forward", "both", "sideways" }

\* What llm.generate can answer when asked for a number: Ok with this text,
\* or Err.
ChoiceTexts ==
    { << "2" >>, << " ", "2", "\n" >>, << "+", "2" >>, << "3" >>,
      << "0" >>, << "5" >>, << "-", "1" >>, << "2", "." >>,
      << "O", "p", "t", "i", "o", "n", " ", "2" >>,
      << "b", "a", "n", "a", "n", "a" >>, << >> }

ChoiceReplies ==
    { [ok |-> FALSE, text |-> << >>] } \cup
    { [ok |-> TRUE, text |-> t] : t \in ChoiceTexts }

Whitespace == { " ", "\n", "\t" }

Digits == << "0", "1", "2", "3", "4", "5", "6", "7", "8", "9" >>

IsDigit(c) == \E d \in DOMAIN Digits : Digits[d] = c

DigitValue(c) == (CHOOSE d \in DOMAIN Digits : Digits[d] = c) - 1

\* str::trim
RECURSIVE trim_start(_)
trim_start(s) ==
    IF s # << >> /\ s[1] \in Whitespace THEN trim_start(Tail(s)) ELSE s

RECURSIVE trim_end(_)
trim_end(s) ==
    IF s # << >> /\ s[Len(s)] \in Whitespace
    THEN trim_end(SubSeq(s, 1, Len(s) - 1)) ELSE s

trim(s) == trim_end(trim_start(s))

RECURSIVE DecimalValue(_, _)
DecimalValue(s, acc) ==
    IF s = << >> THEN acc
    ELSE DecimalValue(Tail(s), 10 * acc + DigitValue(s[1]))

\* str::parse::<usize>: an optional plus sign and then one or more decimal
\* digits, nothing else (the texts here stay far below usize::MAX).
ParseUsize(s) ==
    LET body == IF s # << >> /\ s[1] = "+" THEN Tail(s) ELSE s IN
    IF body # << >> /\ \A i \in DOMAIN body : IsDigit(body[i])
    THEN Some(DecimalValue(body, 0))
    ELSE None

\* response.trim().parse().unwrap_or(1)
ParseChoice(response) ==
    LET parsed == ParseUsize(trim(response)) IN
    IF IsSome(parsed) THEN Unwrap(parsed) ELSE 1

\* usize::saturating_sub(1)
SaturatingSub1(n) == IF n = 0 THEN 0 ELSE n - 1

\* Iterator::nth on a list (0-based)
Nth(seq, n) == IF n + 1 \in DOMAIN seq THEN Some(seq[n + 1]) ELSE None

\* One candidate of the loop: (node, relation_type, is_incoming).
Candidate(id, relation_type, is_incoming) ==
    [memory_id |-> id, relation_type |-> relation_type,
     is_incoming |-> is_incoming]

\* One list of the ConnectionsResult as candidates.
CandidatesFrom(edges, node_id, label, out, relation_type) ==
    LET ids == Connected(edges, node_id, [label |-> label, out |-> out]) IN
    [i \in DOMAIN ids |-> Candidate(ids[i], relation_type, ~out)]

\* The candidates get_chain takes from the store's answer, by chain_type.
Candidates(edges, node_id, chain_type) ==
    LET implies_out ==
            CandidatesFrom(edges, node_id, "IMPLIES", TRUE, "Implies")
        because_in ==
            CandidatesFrom(edges, node_id, "BECAUSE", FALSE, "Because")
        contradicts_out ==
            CandidatesFrom(edges, node_id, "CONTRADICTS", TRUE,
                           "Contradicts") IN
    IF chain_type = "causal" THEN because_in
    ELSE IF chain_type = "forward" THEN implies_out
    ELSE implies_out \o because_in \o contradicts_out

\* The candidates kept, with the visited filter left out
Unvisited_All(candidates, seen) == candidates

\* candidates.into_iter().filter(|(n, _, _)| !visited.contains(&n.memory_id))
Unvisited(candidates, seen) ==
    SelectSeq(candidates, LAMBDA n : n.memory_id \notin seen)

\* The candidate the loop goes on with.
Best(unvisited, llm, reply) ==
    IF Len(unvisited) = 1 THEN Some(unvisited[1])
    ELSE IF llm
    THEN IF reply.ok
         THEN Nth(unvisited, SaturatingSub1(ParseChoice(reply.text)))
         ELSE Some(unvisited[1])
    ELSE Some(unvisited[1])

\* format!("rel_{}_{}", &from_id, &to_id)
ChainRelationId(from_id, to_id) == "rel_" \o from_id \o "_" \o to_id

\* The content the store holds for a memory (MemoryNode.content).
ContentOf(id) == "content of " \o id

\* The ReasoningRelation the loop pushes for the chosen candidate.
ChainRelation(current_id, node) ==
    LET from_id == IF node.is_incoming THEN node.memory_id ELSE current_id
        to_id == IF node.is_incoming THEN current_id ELSE node.memory_id IN
    [relation_id |-> ChainRelationId(from_id, to_id),
     from_memory_id |-> from_id, to_memory_id |-> to_id,
     to_memory_content |-> ContentOf(node.memory_id),
     relation_type |-> node.relation_type,
     strength |-> 80]

\* get_chain(memory_id, chain_type, max_depth) up to the loop.
GetChain ==
    /\ gc_input = None
    /\ \E id \in ChainSeeds, chain_type \in ChainTypes,
          depth_limit \in 0..MaxChainDepth :
         /\ gc_input' = Some([memory_id |-> id, chain_type |-> chain_type,
                              max_depth |-> depth_limit])
         /\ gc_current_id' = id
    /\ gc_pc' = "loop"
    /\ gc_relations' = << >>
    /\ gc_visited' = {}
    /\ gc_depth' = 0
    /\ UNCHANGED <<gc_steps, gc_chain, gc_nodes, not_chain>>

\* One iteration of the loop: the store call, the candidates, the choice
\* (through the LLM when there are several and one is configured), the
\* relation pushed; every break leaves the loop.
ChainIterate ==
    /\ gc_pc = "loop"
    /\ gc_depth < Unwrap(gc_input).max_depth
    /\ IF gc_current_id \in gc_visited
       THEN /\ gc_pc' = "exit"
            /\ UNCHANGED <<gc_relations, gc_visited, gc_current_id,
                           gc_depth, gc_steps>>
       ELSE
       \E store_ok \in BOOLEAN, reply \in ChoiceReplies :
         LET seen == gc_visited \cup { gc_current_id }
             candidates == Candidates(graph_edges, gc_current_id,
                                      Unwrap(gc_input).chain_type)
             unvisited == Unvisited(candidates, seen)
             asked == Len(unvisited) > 1 /\ llm_provider
             best == Best(unvisited, llm_provider, reply) IN
         /\ gc_visited' = seen
         /\ IF ~store_ok \/ unvisited = << >>
            THEN /\ gc_pc' = "exit"
                 /\ UNCHANGED <<gc_relations, gc_current_id, gc_depth,
                                gc_steps>>
            ELSE /\ gc_steps' = Append(gc_steps,
                       [current_id |-> gc_current_id,
                        unvisited |-> unvisited,
                        reply |-> IF asked THEN Some(reply) ELSE None,
                        best |-> best])
                 /\ IF IsSome(best)
                    THEN /\ gc_relations' = Append(gc_relations,
                               ChainRelation(gc_current_id, Unwrap(best)))
                         /\ gc_current_id' = Unwrap(best).memory_id
                         /\ gc_depth' = gc_depth + 1
                         /\ UNCHANGED gc_pc
                    ELSE /\ gc_pc' = "exit"
                         /\ UNCHANGED <<gc_relations, gc_current_id,
                                        gc_depth>>
    /\ UNCHANGED <<gc_input, gc_chain, gc_nodes, not_chain>>

\* After the loop: the chain returned.
ChainReturn ==
    /\ \/ gc_pc = "exit"
       \/ gc_pc = "loop" /\ gc_depth >= Unwrap(gc_input).max_depth
    /\ gc_pc' = "returned"
    /\ gc_chain' = Some([seed_memory_id |-> Unwrap(gc_input).memory_id,
                         relations |-> gc_relations,
                         chain_type |-> Unwrap(gc_input).chain_type,
                         depth |-> gc_depth])
    /\ UNCHANGED <<gc_input, gc_relations, gc_visited, gc_current_id,
                   gc_depth, gc_steps, gc_nodes, not_chain>>

\* The nodes search_reasoning_chain reports for a chain.
ChainNodes(chain) ==
    [k \in DOMAIN chain.relations |->
        [memory_id |-> chain.relations[k].to_memory_id,
         content |-> chain.relations[k].to_memory_content,
         relation |-> edge_name(chain.relations[k].relation_type)]]

\* search_reasoning_chain takes the chain get_chain returned for a seed: a
\* chain with relations is reported with its nodes, an empty one is dropped.
ReportChain ==
    /\ gc_pc = "returned"
    /\ gc_nodes = None
    /\ Unwrap(gc_chain).relations # << >>
    /\ gc_nodes' = Some(ChainNodes(Unwrap(gc_chain)))
    /\ UNCHANGED <<gc_input, gc_pc, gc_relations, gc_visited, gc_current_id,
                   gc_depth, gc_steps, gc_chain, not_chain>>

InitChain ==
    /\ PipelineIdle /\ RankIdle /\ EngineIdle
    /\ UpdateIdle /\ WarmIdle /\ InitIdle /\ ChainIdle
    /\ VectorIdle /\ SearchIdle /\ GraphIdle /\ TraversalIdle
    /\ graph_edges \in ChainGraphs
    /\ vector_hits = <<>>
    /\ max_depth = 0
    /\ edge_types = <<>>
    /\ expansion_tasks = <<>>
    /\ all_results = <<>>
    /\ llm_provider \in BOOLEAN
    /\ ir_response = <<>>
    /\ ir_result = <<>>
    /\ rt_label = <<>>
    /\ rt_rel_type = <<>>

NextChain ==
    \/ GetChain
    \/ ChainIterate
    \/ ChainReturn
    \/ ReportChain

SpecChain == InitChain /\ [][NextChain]_all_vars

\* ------------------------------------------------- VectorSearch::search

\* Capacity and time-to-live of the search cache, and the latest clock
\* reading (SearchEngineConfig::default() has 500 entries and 300 seconds).
SearchCacheSize == 1
SearchCacheTtl == 1
MaxTime == 2

\* Most memories in one answer of the store.
MaxVectorHits == 1

Queries == { "a", "cats" }
UserIds == { None, Some("u1") }
Limits == { 1, 2 }

\* format!("{}", min_score) for the one min_score SearchEngine passes, 0.0
MinScoreText == "0"

\* format!("{:x}", hasher.finish()) of a DefaultHasher (SipHash-1-3 with
\* zero keys) fed the key_data string: lower-case hexadecimal without
\* leading zeros.
DefaultHasherHex(key_data) ==
    CASE key_data = "a||1|0" -> "5b960f0c3c5a672d"
      [] key_data = "a||2|0" -> "7dea6e6aaa345b6e"
      [] key_data = "a||3|0" -> "27839fb06032f95d"
      [] key_data = "a|u1|1|0" -> "1804e25b9ef7998a"
      [] key_data = "a|u1|2|0" -> "13f2fb8f770d0a8"
      [] key_data = "a|u1|3|0" -> "227e1c081048045e"
      [] key_data = "cats||1|0" -> "b840e3bbc30da365"
      [] key_data = "cats||2|0" -> "f8a8e0d4989aa80d"
      [] key_data = "cats||3|0" -> "4585c29226ac96c0"
      [] key_data = "cats|u1|1|0" -> "f63a2f74d308e5c8"
      [] key_data = "cats|u1|2|0" -> "496f4e8501e28255"
      [] key_data = "cats|u1|3|0" -> "d80b795a521de9d8"

\* make_cache_key: the first 16 bytes of the hexadecimal hash; slicing a
\* shorter string panics.
make_cache_key(query, user_id, limit) ==
    LET user == IF IsSome(user_id) THEN Unwrap(user_id) ELSE ""
        key_data == query \o "|" \o user \o "|" \o ToString(limit)
                        \o "|" \o MinScoreText
        hex == DefaultHasherHex(key_data) IN
    IF Len(hex) < 16 THEN [panics |-> TRUE, key |-> ""]
    ELSE [panics |-> FALSE, key |-> SubSeq(hex, 1, 16)]

\* SearchCache::get: an entry older than the TTL is evicted and misses.
cache_get(cache, key, now) ==
    LET found == { i \in DOMAIN cache : cache[i].key = key } IN
    IF found = {} THEN [cache |-> cache, value |-> None]
    ELSE LET i == CHOOSE j \in found : TRUE IN
         IF now - cache[i].inserted_at > SearchCacheTtl
         THEN [cache |-> SelectSeq(cache, LAMBDA e : e.key # key),
               value |-> None]
         ELSE [cache |-> cache, value |-> Some(cache[i].value)]

\* SearchCache::set: the entry is inserted as the newest; on overflow the
\* least recently inserted entries go.
cache_set(cache, key, value, now) ==
    LET others == SelectSeq(cache, LAMBDA e : e.key # key)
        all == Append(others,
                      [key |-> key, value |-> value, inserted_at |-> now]) IN
    IF Len(all) > SearchCacheSize
    THEN SubSeq(all, Len(all) - SearchCacheSize + 1, Len(all))
    ELSE all

\* What the store answers to vectorSearch: an error, or some memories with
\* their similarity scores in hundredths.
VectorMemoryPool ==
    << [memory_id |-> "A", similarity_score |-> 91],
       [memory_id |-> "B", similarity_score |-> 77],
       [memory_id |-> "C", similarity_score |-> 64] >>

VectorSearchReplies ==
    { [ok |-> FALSE, memories |-> << >>] } \cup
    { [ok |-> TRUE, memories |->
          [i \in 1..n |-> VectorMemoryPool[((i - 1) % Len(VectorMemoryPool)) + 1]]] :
      n \in 0..MaxVectorHits }

\* The SearchResult built for one memory of the answer.
VectorResult(item) ==
    [memory_id |-> item.memory_id, score |-> item.similarity_score,
     method |-> "Vector"]

\* The outcome of a call that unwinds.
Panicked == [ok |-> FALSE, err |-> "panicked"]

\* VectorSearch::search(query, user_id, limit, 0.0, use_cache) with the
\* store's answer: the cache after the call, the store requests issued and
\* the outcome.
vector_search(cache, now, query, user_id, limit, use_cache, reply) ==
    LET made == make_cache_key(query, user_id, limit)
        got == IF use_cache /\ ~made.panics
               THEN cache_get(cache, made.key, now)
               ELSE [cache |-> cache, value |-> None]
        input == [query |-> query,
                  user_id |-> IF IsSome(user_id) THEN Unwrap(user_id) ELSE "",
                  limit |-> limit, min_score |-> 0]
        results == [i \in DOMAIN reply.memories |->
                       VectorResult(reply.memories[i])] IN
    IF use_cache /\ made.panics
    THEN [cache |-> cache, requests |-> << >>, result |-> Panicked]
    ELSE IF IsSome(got.value)
    THEN [cache |-> got.cache, requests |-> << >>,
          result |-> [ok |-> TRUE, value |-> Unwrap(got.value)]]
    ELSE IF ~reply.ok
    THEN [cache |-> got.cache,
          requests |-> << [op |-> "vectorSearch", input |-> input] >>,
          result |-> Err("Database")]
    ELSE [cache |-> IF use_cache
                    THEN cache_set(got.cache, made.key, results, now)
                    ELSE got.cache,
          requests |-> << [op |-> "vectorSearch", input |-> input] >>,
          result |-> [ok |-> TRUE, value |-> results]]

\* One VectorSearch::search call.
VectorSearch ==
    /\ vs_call = None
    /\ \E query \in Queries, user_id \in UserIds, limit \in Limits,
          use_cache \in BOOLEAN, reply \in VectorSearchReplies :
         LET out == vector_search(vs_cache, vs_now, query, user_id, limit,
                                  use_cache, reply) IN
         /\ vs_cache' = out.cache
         /\ vs_call' = Some([query |-> query, user_id |-> user_id,
                             limit |-> limit, use_cache |-> use_cache,
                             reply |-> reply, cache_before |-> vs_cache,
                             now |-> vs_now, requests |-> out.requests,
                             result |-> out.result])
    /\ UNCHANGED <<vs_now, not_vector>>

\* The caller has the outcome; the next call can begin.
VectorSearchReturned ==
    /\ vs_call # None
    /\ vs_call' = None
    /\ UNCHANGED <<vs_cache, vs_now, not_vector>>

\* Time passes between the calls.
VectorTick ==
    /\ vs_now < MaxTime
    /\ vs_now' = vs_now + 1
    /\ UNCHANGED <<vs_cache, vs_call, not_vector>>

InitVector ==
    /\ PipelineIdle /\ RankIdle /\ ExpandIdle /\ EngineIdle
    /\ InferIdle /\ UpdateIdle /\ WarmIdle /\ InitIdle /\ ChainIdle
    /\ SearchIdle /\ GraphIdle /\ TraversalIdle
    /\ vs_cache = << >>
    /\ vs_now = 0
    /\ vs_call = None

NextVector ==
    \/ VectorSearch
    \/ VectorSearchReturned
    \/ VectorTick

SpecVector == InitVector /\ [][NextVector]_all_vars

\* ------------------------------------------------- SearchEngine::search

\* The mode strings a caller passes.
Modes ==
    { << "r", "e", "c", "e", "n", "t" >>,
      << "R", "e", "c", "e", "n", "t" >>,
      << "c", "o", "n", "t", "e", "x", "t", "u", "a", "l" >>,
      << "C", "O", "N", "T", "E", "X", "T", "U", "A", "L" >>,
      << "d", "e", "e", "p" >>,
      << "D", "e", "e", "p" >>,
      << "f", "u", "l", "l" >>,
      << "F", "U", "L", "L" >>,
      << "h", "y", "b", "r", "i", "d" >>,
      << >> }

M_recent == << "r", "e", "c", "e", "n", "t" >>
M_contextual == << "c", "o", "n", "t", "e", "x", "t", "u", "a", "l" >>
M_deep == << "d", "e", "e", "p" >>
M_full == << "f", "u", "l", "l" >>

\* What SearchMode::from_str(mode).get_defaults() can give: the two score
\* thresholds in hundredths and the mode's default temporal window in days.
ModeDefaults ==
    { [min_vector_score |-> 50, min_combined_score |-> 20,
       temporal_days |-> Some(7)],
      [min_vector_score |-> 40, min_combined_score |-> 30,
       temporal_days |-> None] }

TemporalDays == Opt({ 3 })

\* Most results in one answer of the smart traversal.
MaxTraversalHits == 3

\* What SmartTraversalV2::search answers: an error, or results with their
\* combined scores in hundredths, best first.
TraversalPool ==
    << [memory_id |-> "A", combined_score |-> 83],
       [memory_id |-> "B", combined_score |-> 61],
       [memory_id |-> "C", combined_score |-> 47],
       [memory_id |-> "D", combined_score |-> 35] >>

TraversalReplies ==
    { [ok |-> FALSE, results |-> << >>] } \cup
    { [ok |-> TRUE, results |->
          [i \in 1..n |-> TraversalPool[((i - 1) % Len(TraversalPool)) + 1]]] :
      n \in 0..MaxTraversalHits }

\* SearchConfig { .., ..Default::default() }
SearchConfig(vector_top_k, graph_depth, min_vector_score, min_combined_score) ==
    [vector_top_k |-> vector_top_k, graph_depth |-> graph_depth,
     min_vector_score |-> min_vector_score,
     min_combined_score |-> min_combined_score,
     edge_types |-> DefaultEdgeTypes]

\* SearchConfig::default().min_vector_score, in hundredths
DefaultMinVectorScore == 50

\* A smart traversal the match runs: its config, its temporal cutoff (the
\* days before now, if any), the take(limit) applied to its results and the
\* method its results carry.
Traversal(config, temporal_cutoff, take, method) ==
    [kind |-> "smart", config |-> config,
     temporal_cutoff |-> temporal_cutoff, take |-> take, method |-> method]

VectorFallback == [kind |-> "vector"]
NoRetrieval == [kind |-> "none"]

SmartV2 == << "s", "m", "a", "r", "t", "_", "v", "2", "_" >>

\* if mode == "recent" { 1 } else { 2 }
RecentDepth(mode) == IF mode = M_recent THEN 1 ELSE 2

\* The match on mode.to_lowercase(): the retrieval search runs.
Retrieval(smart, mode, limit, temporal_days, mode_defaults) ==
    LET effective_temporal_days ==
            IF IsSome(temporal_days) THEN temporal_days
            ELSE mode_defaults.temporal_days
        temporal_cutoff == effective_temporal_days
        lowered == to_lowercase(mode) IN
    IF lowered = M_recent \/ lowered = M_contextual
    THEN IF smart
         THEN Traversal(SearchConfig(limit, RecentDepth(mode),
                                     mode_defaults.min_vector_score,
                                     mode_defaults.min_combined_score),
                        temporal_cutoff, None, SmartV2 \o mode)
         ELSE VectorFallback
    ELSE IF lowered = M_deep
    THEN IF smart
         THEN Traversal(SearchConfig(limit * 2, 3, DefaultMinVectorScore,
                                     mode_defaults.min_combined_score),
                        temporal_cutoff, Some(limit), SmartV2 \o M_deep)
         ELSE VectorFallback
    ELSE IF lowered = M_full
    THEN IF smart
         THEN Traversal(SearchConfig(limit * 2, 4, DefaultMinVectorScore,
                                     DefaultMinCombinedScore),
                        None, Some(limit), SmartV2 \o M_full)
         ELSE NoRetrieval
    ELSE VectorFallback

\* Iterator::take
Take(seq, n) == SubSeq(seq, 1, IF n < Len(seq) THEN n ELSE Len(seq))

\* The UnifiedSearchResults made of a traversal's answer
\* (unwrap_or_default, take, map).
TraversalResults(retrieval, reply) ==
    LET got == IF reply.ok THEN reply.results ELSE << >>
        kept == IF IsSome(retrieval.take)
                THEN Take(got, Unwrap(retrieval.take)) ELSE got IN
    [i \in DOMAIN kept |->
        [memory_id |-> kept[i].memory_id, score |-> kept[i].combined_score,
         method |-> retrieval.method]]

\* vector_search_unified: the UnifiedSearchResults made of VectorSearch's
\* results, or its failure.
VectorUnified(outcome) ==
    IF outcome.ok
    THEN [ok |-> TRUE, value |->
             [i \in DOMAIN outcome.value |->
                 [memory_id |-> outcome.value[i].memory_id,
                  score |-> outcome.value[i].score,
                  method |-> << "v", "e", "c", "t", "o", "r" >>]]]
    ELSE IF outcome = Panicked THEN Panicked
    ELSE Err("Vector")

\* One SearchEngine::search call, with what the traversal or the store
\* answers.
Search ==
    /\ se_call = None
    /\ \E query \in Queries, limit \in Limits, mode \in Modes,
          temporal_days \in TemporalDays, mode_defaults \in ModeDefaults :
       LET retrieval == Retrieval(smart_traversal, mode, limit,
                                  temporal_days, mode_defaults) IN
       \E traversed \in IF retrieval.kind = "smart" THEN TraversalReplies
                         ELSE { [ok |-> FALSE, results |-> << >>] },
          reply \in IF retrieval.kind = "vector" THEN VectorSearchReplies
                     ELSE { [ok |-> FALSE, memories |-> << >>] } :
         LET out == vector_search(vs_cache, vs_now, query, Some("u1"),
                                  limit, TRUE, reply) IN
         /\ vs_cache' = IF retrieval.kind = "vector" THEN out.cache
                        ELSE vs_cache
         /\ se_call' = Some(
               [query |-> query, limit |-> limit, mode |-> mode,
                temporal_days |-> temporal_days,
                mode_defaults |-> mode_defaults,
                retrieval |-> retrieval,
                requests |-> IF retrieval.kind = "vector"
                             THEN out.requests ELSE << >>,
                result |->
                    IF retrieval.kind = "smart"
                    THEN [ok |-> TRUE,
                          value |-> TraversalResults(retrieval, traversed)]
                    ELSE IF retrieval.kind = "vector"
                    THEN VectorUnified(out.result)
                    ELSE [ok |-> TRUE, value |-> << >>]])
    /\ UNCHANGED <<smart_traversal, vs_now, vs_call, not_search>>

\* The caller has the outcome; the next call can begin.
SearchReturned ==
    /\ se_call # None
    /\ se_call' = None
    /\ UNCHANGED <<smart_traversal, vector_vars, not_search>>

\* Time passes between the calls.
SearchTick ==
    /\ vs_now < MaxTime
    /\ vs_now' = vs_now + 1
    /\ UNCHANGED <<search_vars, vs_cache, vs_call, not_search>>

\* SearchEngine::new(client, embedder, SearchEngineConfig::default())
InitSearch ==
    /\ PipelineIdle /\ RankIdle /\ ExpandIdle /\ EngineIdle
    /\ InferIdle /\ UpdateIdle /\ WarmIdle /\ InitIdle /\ ChainIdle
    /\ VectorIdle /\ GraphIdle /\ TraversalIdle
    /\ smart_traversal = TRUE
    /\ se_call = None

NextSearch ==
    \/ Search
    \/ SearchReturned
    \/ SearchTick

SpecSearch == InitSearch /\ [][NextSearch]_all_vars

\* ------------------------------------- ToolingManager::get_memory_graph

\* Largest depth handed to get_memory_graph.
MaxGraphDepth == 2

\* The lists of the ConnectionsResult get_memory_graph emits edges for, in
\* the order of its loops: the store's edge label and direction and the
\* type the emitted edge carries.
GraphLists ==
    << [label |-> "IMPLIES", out |-> TRUE, type |-> "IMPLIES"],
       [label |-> "IMPLIES", out |-> FALSE, type |-> "IMPLIES"],
       [label |-> "BECAUSE", out |-> TRUE, type |-> "BECAUSE"],
       [label |-> "BECAUSE", out |-> FALSE, type |-> "BECAUSE"],
       [label |-> "CONTRADICTS", out |-> TRUE, type |-> "CONTRADICTS"],
       [label |-> "MEMORY_RELATION", out |-> TRUE, type |-> "SUPPORTS"] >>

\* The edges pushed for one list of a memory's connections.
ListEdges(edges, mid, l) ==
    LET ids == Connected(edges, mid, l) IN
    [i \in DOMAIN ids |->
        [source |-> IF l.out THEN mid ELSE ids[i],
         target |-> IF l.out THEN ids[i] ELSE mid,
         type |-> l.type]]

\* The edges pushed for a memory, list after list from the k-th on.
RECURSIVE EdgesFrom(_, _, _)
EdgesFrom(k, edges, mid) ==
    IF k > Len(GraphLists) THEN << >>
    ELSE ListEdges(edges, mid, GraphLists[k]) \o EdgesFrom(k + 1, edges, mid)

\* The ids pushed to next_ids for a memory: one per edge pushed, the
\* neighbour's.
NeighbourIds(pushed, mid) ==
    [i \in DOMAIN pushed |->
        IF pushed[i].source = mid THEN pushed[i].target
        ELSE pushed[i].source]

\* What getUserMemories answers: an error, or the user's first memories.
UserMemoriesReplies ==
    { [ok |-> FALSE, memories |-> << >>],
      [ok |-> TRUE, memories |-> << >>],
      [ok |-> TRUE, memories |-> << "A" >>],
      [ok |-> TRUE, memories |-> << "B", "C" >>] }

\* The end of a level with the loop's progress lost: the same level again.
NextLevel_Restart(level) == Level(level.current_ids, level.current_depth)

\* current_ids = next_ids; current_depth += 1
NextLevel(level) == Level(level.next_ids, level.current_depth + 1)

\* while current_depth < depth && !current_ids.is_empty()
LevelRuns ==
    /\ mg_level.current_depth < Unwrap(mg_input).depth
    /\ mg_level.current_ids # << >>

\* get_memory_graph(user_id, memory_id, depth) up to the BFS loop.
GetMemoryGraph ==
    /\ mg_input = None
    /\ \E id \in Opt({ "A", "C" }), depth \in 0..MaxGraphDepth,
          reply \in UserMemoriesReplies :
         LET start_ids == IF IsSome(id) THEN << Unwrap(id) >>
                          ELSE IF reply.ok THEN reply.memories ELSE << >> IN
         /\ mg_input' = Some([user_id |-> "u1", memory_id |-> id,
                              depth |-> depth])
         /\ mg_level' = Level(start_ids, 0)
         /\ IF start_ids = << >>
            THEN /\ mg_pc' = "returned"
                 /\ mg_result' = Some([nodes |-> << >>, edges |-> << >>])
            ELSE /\ mg_pc' = "loop"
                 /\ UNCHANGED mg_result
    /\ mg_nodes' = << >>
    /\ mg_edges' = << >>
    /\ mg_visited' = {}
    /\ UNCHANGED <<mg_visits, not_mgraph>>

\* One memory of the current level: skipped when visited, else its node
\* and its connections are fetched and the edges and next ids pushed.
MemoryGraphVisit ==
    /\ mg_pc = "loop"
    /\ LevelRuns
    /\ mg_level.pos <= Len(mg_level.current_ids)
    /\ LET mid == mg_level.current_ids[mg_level.pos] IN
       IF mid \in mg_visited
       THEN /\ mg_level' = [mg_level EXCEPT !.pos = @ + 1]
            /\ UNCHANGED <<mg_nodes, mg_edges, mg_visited, mg_visits>>
       ELSE
       \E found \in BOOLEAN, conns_ok \in BOOLEAN :
          LET pushed == IF conns_ok THEN EdgesFrom(1, graph_edges, mid)
                        ELSE << >> IN
          /\ mg_visited' = mg_visited \cup { mid }
          /\ mg_nodes' = IF found
                         THEN Append(mg_nodes,
                                     [id |-> mid, content |-> ContentOf(mid)])
                         ELSE mg_nodes
          /\ mg_edges' = mg_edges \o pushed
          /\ mg_level' = [mg_level EXCEPT
                             !.pos = @ + 1,
                             !.next_ids = @ \o NeighbourIds(pushed, mid)]
          /\ mg_visits' = Append(mg_visits,
                                 [memory_id |-> mid, conns_ok |-> conns_ok])
    /\ UNCHANGED <<mg_input, mg_pc, mg_result, not_mgraph>>

\* The level is through: the next one begins.
MemoryGraphNextLevel ==
    /\ mg_pc = "loop"
    /\ LevelRuns
    /\ mg_level.pos > Len(mg_level.current_ids)
    /\ mg_level' = NextLevel(mg_level)
    /\ UNCHANGED <<mg_input, mg_pc, mg_nodes, mg_edges, mg_visited,
                   mg_visits, mg_result, not_mgraph>>

\* After the loop: Ok((nodes, edges)).
MemoryGraphReturn ==
    /\ mg_pc = "loop"
    /\ ~LevelRuns
    /\ mg_pc' = "returned"
    /\ mg_result' = Some([nodes |-> mg_nodes, edges |-> mg_edges])
    /\ UNCHANGED <<mg_input, mg_nodes, mg_edges, mg_visited, mg_level,
                   mg_visits, not_mgraph>>

InitGraph ==
    /\ PipelineIdle /\ RankIdle /\ EngineIdle
    /\ InferIdle /\ UpdateIdle /\ WarmIdle /\ InitIdle /\ ChainIdle
    /\ VectorIdle /\ SearchIdle /\ GraphIdle /\ TraversalIdle
    /\ graph_edges \in GraphPool
    /\ vector_hits = <<>>
    /\ max_depth = 0
    /\ edge_types = <<>>
    /\ expansion_tasks = <<>>
    /\ all_results = <<>>

NextGraph ==
    \/ GetMemoryGraph
    \/ MemoryGraphVisit
    \/ MemoryGraphNextLevel
    \/ MemoryGraphReturn

SpecGraph == InitGraph /\ [][NextGraph]_all_vars

\* ------------------------------------------- SmartTraversalV2::search

\* The memories of the store with the user each is linked to: the
\* searching user's own, and the same with one of another user.
OwnerMaps ==
    { [id \in { "A", "B" } |-> "u1"],
      [id \in { "A", "B", "C" } |-> IF id = "C" THEN "u2" ELSE "u1"] }

\* The edges between the searching user's memories.
TraversalGraphs ==
    { << [from |-> "A", to |-> "B", label |-> "IMPLIES"] >>,
      << [from |-> "A", to |-> "B", label |-> "IMPLIES"],
         [from |-> "B", to |-> "A", label |-> "BECAUSE"] >> }

\* calculate_temporal_freshness(created_at, 30.0) of each memory, in
\* hundredths, and whether it was created before the cutoff of a search
\* that has one.
Freshness(id) == IF id = "B" THEN 50 ELSE 100
BeforeCutoff(id) == id = "B"

\* config.vector_top_k, config.graph_depth and config.min_vector_score of
\* the recent and contextual searches.
TopKs == { 1, 2 }
GraphDepths == { 1, 2 }
MinVectorScores == { 50, 80 }

\* Sequences without repetition are the store's answers; one answer names a
\* memory twice (once for the memory, once for a chunk of it).
RECURSIVE SeqsUpTo(_, _)
SeqsUpTo(S, n) ==
    IF n = 0 THEN { << >> }
    ELSE LET shorter == SeqsUpTo(S, n - 1) IN
         shorter \cup { Append(q, x) : q \in shorter, x \in S }

\* The request of vector_search_phase: the query vector and the limit.
VectorPhaseRequest(top_k) ==
    [op |-> "smartVectorSearchWithChunks", query_vector |-> "q",
     limit |-> top_k]

\* What smartVectorSearchWithChunks answers to a request: an error, or at
\* most limit memories nearest to the query vector.
VectorPhaseReplies(owner, request) ==
    { [ok |-> FALSE, memories |-> << >>] } \cup
    { [ok |-> TRUE, memories |-> m] :
        m \in SeqsUpTo(DOMAIN owner, request.limit) }

\* The loop's seen_ids: the first occurrence of each memory.
FirstOccurrences(memories) ==
    LET keep == { i \in DOMAIN memories :
                    \A j \in 1..(i - 1) : memories[j] # memories[i] } IN
    [k \in 1..Cardinality(keep) |->
        memories[CHOOSE i \in keep :
                    Cardinality({ j \in keep : j <= i }) = k]]

\* SearchResult::from_vector(id, content, 0.8, temporal_score): the
\* combined score 0.7 * 0.8 + 0.3 * temporal_score, in hundredths.
from_vector(id, temporal_score) ==
    [memory_id |-> id,
     combined_score |-> (70 * 80 + 30 * temporal_score) \div 100]

\* vector_search_phase(client, query_embedding, user_id, top_k, min_score,
\* temporal_cutoff) on the store's answer: user_id and the memories' user_id
\* are not read.
vector_search_phase(reply, user_id, top_k, min_score, temporal_cutoff) ==
    LET seen == FirstOccurrences(reply.memories)
        recent == SelectSeq(seen,
                      LAMBDA id : ~(temporal_cutoff /\ BeforeCutoff(id)))
        made == [i \in DOMAIN recent |->
                    from_vector(recent[i], Freshness(recent[i]))]
        kept == SelectSeq(made,
                    LAMBDA r : r.combined_score >= min_score) IN
    SortByCombinedDesc(kept, <<>>)

\* Combined scores of the two sources side by side, in millionths: a
\* vector result's hundredths, and SearchResult::from_graph's
\* 0.3 * 0.5 + 0.5 * graph_score + 0.2 * temporal_score, where the
\* graph_score of a result one hop from the seed is in ten-thousandths and
\* two hops from it in millionths.
VectorRanked(hit) ==
    [memory_id |-> hit.memory_id, source |-> "vector",
     combined_score |-> hit.combined_score * 10000]

GraphRanked(r) ==
    [memory_id |-> r.memory_id, source |-> "graph",
     combined_score |->
         150000
         + ((IF r.hops = 1 THEN 100 ELSE 1) * r.graph_score) \div 2
         + 2000 * Freshness(r.memory_id)]

\* The vector hits followed by the expanded results, as rank_and_filter
\* receives them.
Merged(hits, expanded) ==
    [i \in DOMAIN hits |-> VectorRanked(hits[i])]
        \o [i \in DOMAIN expanded |-> GraphRanked(expanded[i])]

\* SmartTraversalV2::search up to the end of phase 1, once the search
\* before it has returned: the request, the store's answer and the hits
\* handed to graph_expansion_phase.
TraversalVectorPhase ==
    /\ tr_call # None => Unwrap(tr_call).pc = "returned"
    /\ \E top_k \in TopKs, graph_depth \in GraphDepths,
          min_vector_score \in MinVectorScores,
          temporal_cutoff \in BOOLEAN :
       LET request == VectorPhaseRequest(top_k) IN
       \E reply \in VectorPhaseReplies(tr_owner, request) :
         LET hits == vector_search_phase(reply, Some("u1"), top_k,
                         min_vector_score, temporal_cutoff) IN
         /\ tr_call' = Some(
               [user_id |-> Some("u1"),
                config |-> SearchConfig(top_k, graph_depth,
                               min_vector_score, DefaultMinCombinedScore),
                temporal_cutoff |-> temporal_cutoff,
                request |-> request,
                pc |-> IF reply.ok THEN "phase2" ELSE "returned",
                result |-> IF reply.ok THEN [ok |-> TRUE, value |-> << >>]
                           ELSE Err("Database")])
         /\ vector_hits' = IF reply.ok THEN hits ELSE << >>
         /\ max_depth' = IF reply.ok THEN graph_depth ELSE 0
         /\ edge_types' = IF reply.ok THEN DefaultEdgeTypes ELSE << >>
    /\ expansion_tasks' = <<>>
    /\ all_results' = None
    /\ UNCHANGED <<graph_edges, tr_owner, not_traversal>>

\* Phase 2: graph_expansion_phase on the hits.
TraversalExpand ==
    /\ tr_call # None
    /\ Unwrap(tr_call).pc = "phase2"
    /\ NextExpand

\* Phase 3: rank_and_filter over the hits and the expanded results, and the
\* return of the search.
TraversalRank ==
    /\ tr_call # None
    /\ Unwrap(tr_call).pc = "phase2"
    /\ all_results # None
    /\ \E values \in IterationOrders(
                        BestScores(Merged(vector_hits,
                                          Unwrap(all_results)), <<>>)) :
         tr_call' = Some([Unwrap(tr_call) EXCEPT
             !.pc = "returned",
             !.result = [ok |-> TRUE, value |->
                 FilterAndSort(values,
                     Unwrap(tr_call).config.min_combined_score * 10000)]])
    /\ UNCHANGED <<expand_vars, tr_owner, not_traversal>>

InitTraversal ==
    /\ PipelineIdle /\ RankIdle /\ EngineIdle
    /\ InferIdle /\ UpdateIdle /\ WarmIdle /\ InitIdle /\ ChainIdle
    /\ VectorIdle /\ SearchIdle /\ GraphIdle
    /\ graph_edges \in TraversalGraphs
    /\ vector_hits = <<>>
    /\ max_depth = 0
    /\ edge_types = <<>>
    /\ expansion_tasks = <<>>
    /\ all_results = None
    /\ tr_owner \in OwnerMaps
    /\ tr_call = None

NextTraversal ==
    \/ TraversalVectorPhase
    \/ TraversalExpand
    \/ TraversalRank

SpecTraversal == InitTraversal /\ [][NextTraversal]_all_vars

\* ------------------------------------------- the three walkers, run fairly

\* graph_expansion_phase has returned (from a call with no hits).
ExpandDone ==
    /\ vector_hits = <<>>
    /\ max_depth = 0
    /\ edge_types = <<>>
    /\ expansion_tasks = <<>>
    /\ all_results = Some(<<>>)

\* get_chain has returned (from a call with max_depth 0).
ChainDone ==
    /\ gc_input = Some([memory_id |-> "A", chain_type |-> "forward",
                        max_depth |-> 0])
    /\ gc_pc = "returned"
    /\ gc_relations = <<>>
    /\ gc_visited = {}
    /\ gc_current_id = "A"
    /\ gc_depth = 0
    /\ gc_steps = <<>>
    /\ gc_chain = Some([seed_memory_id |-> "A", relations |-> <<>>,
                        chain_type |-> "forward", depth |-> 0])
    /\ gc_nodes = None

\* get_memory_graph has returned (from a call with depth 0).
GraphDone ==
    /\ mg_input = Some([user_id |-> "u1", memory_id |-> Some("A"),
                        depth |-> 0])
    /\ mg_pc = "returned"
    /\ mg_nodes = <<>>
    /\ mg_edges = <<>>
    /\ mg_visited = {}
    /\ mg_level = Level(<< "A" >>, 0)
    /\ mg_visits = <<>>
    /\ mg_result = Some([nodes |-> <<>>, edges |-> <<>>])

\* One of the three walkers is about to be called on a store; the other two
\* have returned.
InitWalkers ==
    /\ PipelineIdle /\ RankIdle /\ EngineIdle
    /\ UpdateIdle /\ WarmIdle /\ InitIdle /\ VectorIdle /\ SearchIdle
    /\ TraversalIdle
    /\ ir_response = <<>>
    /\ ir_result = <<>>
    /\ rt_label = <<>>
    /\ rt_rel_type = <<>>
    /\ graph_edges \in ChainGraphs
    /\ \/ /\ \E n \in 1..MaxSeeds : vector_hits = VectorHits(n)
          /\ max_depth \in 0..MaxDepth
          /\ edge_types = DefaultEdgeTypes
          /\ expansion_tasks = <<>>
          /\ all_results = None
          /\ llm_provider = FALSE
          /\ ChainDone /\ GraphDone
       \/ /\ ExpandDone
          /\ llm_provider \in BOOLEAN
          /\ ChainIdle /\ GraphDone
       \/ /\ ExpandDone
          /\ llm_provider = FALSE
          /\ ChainDone /\ GraphIdle

NextWalkers ==
    \/ NextExpand
    \/ NextChain
    \/ NextGraph

\* Every store, embedder and LLM call returns and every task is scheduled:
\* a walker that can take a step takes one.
SpecWalkers ==
    /\ InitWalkers
    /\ [][NextWalkers]_all_vars
    /\ WF_all_vars(NextExpand)
    /\ WF_all_vars(NextChain)
    /\ WF_all_vars(NextGraph)

\* ------------------------------------------------------ specification

\* The write pipeline on a ToolingManager.
Next ==
    \/ ToolingInitialize
    \/ ToolingAdd
    \/ Finish
    \/ Extract
    \/ Embed
    \/ Decide
    \/ UpdateMemoryInternal
    \/ DeleteTarget
    \/ StoreAddMemory
    \/ StoreEmbedding
    \/ StoreLinkUser
    \/ StoreChunk
    \/ AfterStore
    \/ LinkEntity
    \/ LinkConcept
    \/ BuildMap
    \/ Relation

\* The same pipeline with the operations of the HelixirClient that owns the
\* ToolingManager.
NextClient ==
    \/ ClientInitialize
    \/ ClientClose
    \/ ClientAdd
    \/ Next

Spec == Init /\ [][Next]_vars

SpecClient == Init /\ [][NextClient]_vars

TypeOK ==
    /\ is_initialized \in BOOLEAN
    /\ ontology_loaded \in BOOLEAN
    /\ pc \in {"idle", "extract", "embed", "decide", "update_memory",
               "delete_target", "store_add_memory", "store_embedding",
               "store_link_user", "store_chunk", "after_store", "entities",
               "concepts", "build_map", "relations", "returned"}
    /\ skipped \in Nat /\ idx \in Nat /\ next_uuid \in Nat
    /\ Len(added_ids) <= Len(memories_to_store)

\* ============================================================== claims

Returned == pc = "returned"
ReturnedOk == Returned /\ Unwrap(result).ok
LogOps == { log[i].op : i \in DOMAIN log }

\* The memory (position in memories_to_store) an id was minted for.
MintedFor(id, i) ==
    \E j \in DOMAIN log :
        log[j].op = "addMemory" /\ log[j].a = id /\ log[j].m = i

\* C1 (as claimed): once the content -> id map is built, every key is the
\* lower-cased text (or its 100-character prefix) of a memory of this call
\* and its value is the id that was minted for that same memory.
CE_C1_MapPairsTextWithItsOwnId ==
    pc = "relations" =>
        \A k \in DOMAIN memory_content_to_id :
            \E i \in DOMAIN memories_to_store :
                /\ k \in { to_lowercase(memories_to_store[i].text),
                           safe_truncate(
                               to_lowercase(memories_to_store[i].text), 100) }
                /\ MintedFor(memory_content_to_id[k], i)

\* C2 (as claimed): a failure of the embedder for one memory never turns
\* the whole add_memory call into an error.
CE_C2_EmbedFailureKeepsCall ==
    (Returned /\ last = [op |-> "embed", ok |-> FALSE]) => Unwrap(result).ok

\* C3 (as claimed): a call that has persisted a memory (addMemory or
\* updateMemory succeeded) and then fails in a store write for a later
\* memory still returns a result, whose counts report what was persisted.
CE_C3_PartialSuccessIsAResult ==
    (/\ Returned
     /\ stored \cup overwritten # {}
     /\ last \in { [op |-> "addMemory", ok |-> FALSE],
                   [op |-> "updateMemory", ok |-> FALSE] })
    => /\ Unwrap(result).ok
       /\ Len(Unwrap(result).added) + Len(Unwrap(result).updated) >= 1

\* C4 (as claimed): a HelixirClient::add whose initialization met a failing
\* ontology load still runs the write pipeline; it does not return the
\* ontology error.
CE_C4_AddSurvivesOntologyFailure ==
    ~(/\ Returned
      /\ last = [op |-> "ensure_initialized", ok |-> FALSE]
      /\ Unwrap(result) = Err("Ontology"))

\* C5: when add_memory returns a result, every id in result.added had a
\* successful addMemory in this call and a linkUserToMemory request issued
\* for it after that addMemory.
Thm_C5_AddedWereStoredAndLinked ==
    ReturnedOk =>
        \A n \in DOMAIN Unwrap(result).added :
            LET id == Unwrap(result).added[n] IN
            /\ id \in stored
            /\ \E j \in DOMAIN log :
                  /\ log[j].op = "addMemory" /\ log[j].a = id
                  /\ \E k \in (j + 1)..Len(log) :
                        log[k].op = "linkUserToMemory" /\ log[k].a = id

Wit_C5 ==
    ReturnedOk /\ Len(Unwrap(result).added) = 2

\* C6: when the extractor returns zero memories, the list handed to the
\* per-memory stage is exactly one memory, the fallback (the raw message,
\* type fact, certainty 50, importance 50, no entities); every write of the
\* call belongs to it, at most one addMemory is issued, with exactly those
\* attributes, and no entity is linked.
Thm_C6_FallbackIsTheOnlyMemory ==
    (pc \notin {"idle", "extract"} /\ idx >= 1 /\ extraction.memories = <<>>)
    => /\ memories_to_store =
            << [text |-> Message, memory_type |-> "fact", certainty |-> 50,
                importance |-> 50, entities |-> <<>>] >>
       /\ idx <= 2
       /\ skipped + Cardinality({ j \in DOMAIN log :
              log[j].op \in {"addMemory", "updateMemory"} }) <= 1
       /\ \A j \in DOMAIN log :
            /\ log[j].m \in {0, 1}
            /\ log[j].op \notin {"getOrCreateEntity", "linkEntityToMemory"}
            /\ log[j].op = "addMemory" =>
                 log[j].memory =
                     Some([text |-> Message, memory_type |-> "fact",
                           certainty |-> 50, importance |-> 50])

Wit_C6 ==
    /\ ReturnedOk
    /\ extraction.memories = <<>>
    /\ "addMemory" \in LogOps
    /\ Len(Unwrap(result).added) = 1


\* A decision that is dispatched is never Noop; the step that takes the
\* Noop branch leaves the dispatch without a decision.
NoopNeverDispatched ==
    decision # None => Unwrap(decision).operation # "Noop"

NoopStepOnlySkips ==
    (pc = "decide" /\ decision' = None)
    => /\ skipped' = skipped + 1
       /\ idx' = idx + 1
       /\ log' = log
       /\ stored' = stored /\ overwritten' = overwritten
       /\ next_uuid' = next_uuid
       /\ added_ids' = added_ids /\ updated_ids' = updated_ids
       /\ entities_linked' = entities_linked
       /\ relations_created' = relations_created
       /\ chunks_created' = chunks_created

\* C7: a memory the decision engine answers Noop for increments skipped by
\* exactly one and causes no store write (no addMemory, updateMemory,
\* deleteMemory, embedding, user link, entity link, concept link, reasoning
\* edge); added and updated stay as they were.
Thm_C7_NoopOnlySkips ==
    [](NoopNeverDispatched) /\ [][NoopStepOnlySkips]_vars

Wit_C7 ==
    /\ ReturnedOk
    /\ Unwrap(result).skipped = 1
    /\ Len(Unwrap(result).added) = 1
    /\ \A j \in DOMAIN log : log[j].m \in {0, 2}

Range(f) == { f[i] : i \in DOMAIN f }

\* Every Supports edge requested by the dispatch carries strength 90, is
\* the only one of its memory, starts at the id stored for that memory
\* before it, and that id is reported in added.
SupersedeEdgesInLog ==
    \A j \in DOMAIN log :
        (log[j].op = "addReasoningRelation" /\ log[j].m # 0)
        => /\ log[j].strength = Some(90)
           /\ Cardinality({ k \in DOMAIN log :
                  log[k].op = "addReasoningRelation"
                  /\ log[k].m = log[j].m }) = 1
           /\ \E k \in 1..(j - 1) :
                  /\ log[k].op = "addMemory"
                  /\ log[k].m = log[j].m
                  /\ log[k].a = log[j].a
           /\ log[j].a \in stored
           /\ log[j].a \in Range(added_ids)
           /\ ReturnedOk => log[j].a \in Range(Unwrap(result).added)

SupersedeStep ==
    (pc = "after_store" /\ Unwrap(decision).operation = "Supersede")
    => LET d == Unwrap(decision)
           new_id == Unwrap(memory_id) IN
       /\ new_id \in stored
       /\ \E j \in DOMAIN log :
             log[j].op = "addMemory" /\ log[j].a = new_id /\ log[j].m = idx
       /\ added_ids' = Append(added_ids, new_id)
       /\ IF IsSome(d.supersedes_memory_id)
          THEN log' = Append(log,
                   [op |-> "addReasoningRelation", m |-> idx, a |-> new_id,
                    b |-> Unwrap(d.supersedes_memory_id),
                    strength |-> Some(90), memory |-> None])
          ELSE log' = log

\* C8: a Supersede decision stores the new memory first; then, when
\* supersedes_memory_id is given, exactly one Supports edge from the new id
\* to the superseded id is requested with strength 90, and none when it is
\* absent; the new id is reported in added.
Thm_C8_SupersedeEdge ==
    [](SupersedeEdgesInLog) /\ [][SupersedeStep]_vars

Wit_C8 ==
    /\ ReturnedOk
    /\ \E j \in DOMAIN log :
          /\ log[j].op = "addReasoningRelation"
          /\ log[j].m # 0
          /\ log[j].b \in OldIds
          /\ log[j].a \in Range(Unwrap(result).added)

UpdateGiven(d) == IsSome(d.target_memory_id) /\ IsSome(d.merged_content)

UpdateDispatch ==
    (pc = "decide" /\ decision' # None
        /\ Unwrap(decision').operation = "Update")
    => pc' = IF UpdateGiven(Unwrap(decision'))
             THEN "update_memory" ELSE "store_add_memory"

UpdateStep ==
    pc = "update_memory"
    => LET d == Unwrap(decision) IN
       /\ d.operation = "Update" /\ UpdateGiven(d)
       /\ log' = Append(log,
              [op |-> "updateMemory", m |-> idx,
               a |-> Unwrap(d.target_memory_id), b |-> None,
               strength |-> None,
               memory |-> Some([text |-> Unwrap(d.merged_content)])])
       /\ next_uuid' = next_uuid
       /\ added_ids' = added_ids
       /\ last'.ok => updated_ids' =
                          Append(updated_ids, Unwrap(d.target_memory_id))

UpdateStoresNew ==
    (pc = "store_add_memory" /\ Unwrap(decision).operation = "Update")
    => /\ ~UpdateGiven(Unwrap(decision))
       /\ Len(log') = Len(log) + 1
       /\ log'[Len(log')].op = "addMemory"
       /\ log'[Len(log')].m = idx
       /\ log'[Len(log')].memory =
              Some([text |-> Memory.text, memory_type |-> Memory.memory_type,
                    certainty |-> Memory.certainty,
                    importance |-> Memory.importance])

\* A memory that was updated has one updateMemory and no addMemory; the
\* updated targets are the ones reported.
UpdatesInLog ==
    /\ \A j \in DOMAIN log :
          log[j].op = "updateMemory"
          => Cardinality({ k \in DOMAIN log :
                 log[k].m = log[j].m
                 /\ log[k].op \in {"updateMemory", "addMemory"} }) = 1
    /\ overwritten = Range(updated_ids)
    /\ ReturnedOk => Unwrap(result).updated = updated_ids

\* C9: an Update decision with both target_memory_id and merged_content
\* issues exactly one updateMemory on the target with the merged content, no
\* addMemory for that memory, and reports the target in updated; with either
\* one missing the memory is stored as new through addMemory.
Thm_C9_UpdateBranch ==
    /\ [](UpdatesInLog)
    /\ [][UpdateDispatch /\ UpdateStep /\ UpdateStoresNew]_vars

Wit_C9 ==
    /\ ReturnedOk
    /\ Len(Unwrap(result).updated) = 1
    /\ "updateMemory" \in LogOps
    /\ "addMemory" \in LogOps

\* The place of a store operation in the per-memory order (0: not ordered
\* by the claim).
Rank(op) ==
    CASE op = "addMemory" -> 1
      [] op = "addMemoryEmbedding" -> 2
      [] op = "linkUserToMemory" -> 3
      [] op = "addMemoryWithChunking" -> 4
      [] op \in {"getOrCreateEntity", "linkEntityToMemory"} -> 5
      [] op = "linkMemoryToInstanceOf" -> 6
      [] OTHER -> 0

\* What a step appends to the log comes, for its memory, after every
\* earlier step's operation: strictly later in the order for the four
\* operations of store_new_memory, not earlier for entity and concept links.
AppendsInOrder ==
    \/ log' = <<>>
    \/ /\ Len(log') >= Len(log)
       /\ SubSeq(log', 1, Len(log)) = log
       /\ \A j \in (Len(log) + 1)..Len(log') :
            \A i \in 1..(j - 1) :
               (log'[i].m = log'[j].m /\ log'[j].m # 0
                  /\ Rank(log'[i].op) # 0 /\ Rank(log'[j].op) # 0)
               => /\ Rank(log'[i].op) <= Rank(log'[j].op)
                  /\ Rank(log'[j].op) <= 4
                       => Rank(log'[i].op) < Rank(log'[j].op)

\* C10: within one call the store operations of a newly stored memory are
\* issued in the order addMemory, addMemoryEmbedding, linkUserToMemory,
\* chunk creation, entity links, linkMemoryToInstanceOf.
Thm_C10_PersistenceOrder ==
    [][AppendsInOrder]_vars

Wit_C10 ==
    \E m \in 1..MaxMems :
        (1..6) \subseteq
            { Rank(log[j].op) : j \in { k \in DOMAIN log : log[k].m = m } }


\* A step that issues a request of the relation stage (m = 0 in the log).
RelationStageAppends ==
    /\ Len(log') > Len(log)
    /\ log'[Len(log')].m = 0

\* A step that issues addMemory or updateMemory.
MemoryWriteAppends ==
    /\ Len(log') > Len(log)
    /\ log'[Len(log')].op \in {"addMemory", "updateMemory"}

RelationsAfterMemories ==
    /\ RelationStageAppends
         => /\ pc = "relations"
            /\ idx > Len(memories_to_store)
            /\ \A j \in DOMAIN log : log[j].m # 0 => log[j].m < idx
    /\ MemoryWriteAppends
         => /\ \A j \in DOMAIN log : log[j].m # 0
            /\ idx <= Len(memories_to_store)

\* C11: within one add_memory call the edges of the extractor's relations
\* list are requested only after the per-memory stage has finished for every
\* memory: such a request is issued past the loop, and no addMemory or
\* updateMemory is issued once one of them is in the log.
Thm_C11_RelationsAfterMemories ==
    [][RelationsAfterMemories]_vars

Wit_C11 ==
    /\ ReturnedOk
    /\ Len(memories_to_store) = 2
    /\ \E j \in DOMAIN log :
          /\ log[j].m = 0
          /\ Cardinality({ k \in 1..(j - 1) : log[k].op = "addMemory" }) = 2

BestEffortOps ==
    {"addMemoryEmbedding", "linkUserToMemory", "addMemoryWithChunking",
     "getOrCreateEntity", "linkEntityToMemory", "linkMemoryToInstanceOf",
     "addMemoryImplication", "addMemoryCausation", "addMemoryContradiction",
     "addReasoningRelation"}

\* Where the call stands after a best-effort request, whatever its outcome.
PcAfterBestEffort(e) ==
    CASE e.op = "addMemoryEmbedding" -> "store_link_user"
      [] e.op = "linkUserToMemory" -> "store_chunk"
      [] e.op = "addMemoryWithChunking" -> "after_store"
      [] e.op \in {"getOrCreateEntity", "linkEntityToMemory"} -> "entities"
      [] e.op = "linkMemoryToInstanceOf" -> "concepts"
      [] e.m = 0 -> "relations"
      [] OTHER -> "entities"

BestEffortStep ==
    (Len(log') > Len(log) /\ log'[Len(log')].op \in BestEffortOps)
    => LET e == log'[Len(log')] IN
       /\ last'.op = e.op
       /\ pc' = PcAfterBestEffort(e)
       /\ result' = None
       /\ idx' = idx /\ memories_to_store' = memories_to_store
       /\ Len(added_ids') >= Len(added_ids)
       /\ SubSeq(added_ids', 1, Len(added_ids)) = added_ids
       /\ updated_ids' = updated_ids
       /\ stored' = stored
       /\ entities_linked' = entities_linked +
             (IF e.op = "linkEntityToMemory" /\ last'.ok THEN 1 ELSE 0)
       /\ relations_created' = relations_created +
             (IF e.m = 0 /\ last'.ok THEN 1 ELSE 0)

\* A call that ends in an error ended in one of the fatal steps.
ErrorsAreFatalSteps ==
    (Returned /\ ~Unwrap(result).ok) => last.op \notin BestEffortOps

CountsAreReported ==
    ReturnedOk
    => /\ Unwrap(result).added = added_ids
       /\ Unwrap(result).entities_extracted = entities_linked
       /\ Unwrap(result).reasoning_relations_created = relations_created

\* C12: a failure of a best-effort step (addMemoryEmbedding,
\* linkUserToMemory, chunking, entity get-or-create or link, one
\* linkMemoryToInstanceOf, one add_relation) does not abort the call: the
\* call goes on to the same next step as after a success, the memory stays in
\* added, and entities_extracted and reasoning_relations_created grow only by
\* the links and relations that succeeded.
Thm_C12_BestEffortFailures ==
    /\ [](ErrorsAreFatalSteps /\ CountsAreReported)
    /\ [][BestEffortStep]_vars

Wit_C12 ==
    /\ ReturnedOk
    /\ last.op \in BestEffortOps /\ ~last.ok /\ "addMemoryImplication" \in LogOps
    /\ "linkEntityToMemory" \in LogOps
    /\ Unwrap(result).entities_extracted = 0
    /\ Unwrap(result).reasoning_relations_created = 0
    /\ Len(Unwrap(result).added) = 2


\* ---- rank_and_filter

RankOutput == Unwrap(rf_filtered_results)

\* C13: whatever the input list and the threshold, no memory id appears
\* more than once in the list rank_and_filter returns.
Thm_C13_NoDuplicateIds ==
    IsSome(rf_filtered_results)
    => \A i, j \in DOMAIN RankOutput :
          RankOutput[i].memory_id = RankOutput[j].memory_id => i = j

Wit_C13 ==
    /\ IsSome(rf_filtered_results)
    /\ Len(rf_results) = 3
    /\ \A i \in DOMAIN rf_results :
          /\ rf_results[i].memory_id = "m1"
          /\ rf_results[i].combined_score >= rf_min_combined_score
    /\ Len(RankOutput) = 1

\* The highest combined score among the input entries of an id.
BestScoreOf(id) ==
    CHOOSE x \in { rf_results[i].combined_score : i \in
                     { k \in DOMAIN rf_results :
                         rf_results[k].memory_id = id } } :
        \A i \in DOMAIN rf_results :
            rf_results[i].memory_id = id
            => rf_results[i].combined_score <= x

InputIds == { rf_results[i].memory_id : i \in DOMAIN rf_results }

\* C14: for each memory id of the input, rank_and_filter returns the entry
\* with the highest combined score of that id when that score is at least
\* min_combined_score, and nothing for an id whose best score is below it;
\* the output is sorted by combined score, descending.
Thm_C14_BestPerIdAboveThreshold ==
    IsSome(rf_filtered_results)
    => /\ \A id \in InputIds :
            LET outs == { i \in DOMAIN RankOutput :
                            RankOutput[i].memory_id = id } IN
            IF BestScoreOf(id) >= rf_min_combined_score
            THEN /\ Cardinality(outs) = 1
                 /\ \A i \in outs :
                       /\ RankOutput[i].combined_score = BestScoreOf(id)
                       /\ \E k \in DOMAIN rf_results :
                             rf_results[k] = RankOutput[i]
            ELSE outs = {}
       /\ \A i \in DOMAIN RankOutput : RankOutput[i].memory_id \in InputIds
       /\ \A i \in 1..(Len(RankOutput) - 1) :
             RankOutput[i].combined_score >= RankOutput[i + 1].combined_score

\* The case of the spec: one memory reached by vector (0.55) and by graph
\* (0.80) comes out once, with 0.80.
Wit_C14 ==
    /\ rf_results =
          << [memory_id |-> "m1", combined_score |-> 55, source |-> "vector"],
             [memory_id |-> "m2", combined_score |-> 25, source |-> "vector"],
             [memory_id |-> "m1", combined_score |-> 80, source |-> "graph"] >>
    /\ rf_min_combined_score = 30
    /\ rf_filtered_results =
          Some(<< [memory_id |-> "m1", combined_score |-> 80,
                   source |-> "graph"] >>)

FirstSeen(id) ==
    CHOOSE i \in DOMAIN rf_results :
        /\ rf_results[i].memory_id = id
        /\ \A j \in 1..(i - 1) : rf_results[j].memory_id # id

\* C15 (as claimed): among results with equal combined score, the one first
\* seen in the input comes first in the output.
CE_C15_TiesKeepFirstSeenOrder ==
    IsSome(rf_filtered_results)
    => \A i, j \in DOMAIN RankOutput :
          (i < j /\ RankOutput[i].combined_score = RankOutput[j].combined_score)
          => FirstSeen(RankOutput[i].memory_id)
                 < FirstSeen(RankOutput[j].memory_id)


\* ---- graph expansion

Emitted == Unwrap(all_results)

\* C16 (as claimed): every result graph_expansion_phase emits was reached
\* from its seed over at most max_depth edges, for every max_depth
\* including 0.
CE_C16_EmittedWithinMaxDepth ==
    IsSome(all_results)
    => \A i \in DOMAIN Emitted : Emitted[i].hops <= max_depth

\* The task's step fetched the connections of its innermost call.
FetchedNow(t) ==
    /\ t \in DOMAIN expansion_tasks
    /\ expansion_tasks[t].status = "running"
    /\ ~Top(t).fetched
    /\ expansion_tasks'[t].status = "running"
    /\ expansion_tasks'[t].stack[Len(expansion_tasks[t].stack)].fetched

Occurrences(seq, x) == Cardinality({ i \in DOMAIN seq : seq[i] = x })

\* What the fetch leaves for continuation: at most three of the node's
\* candidates, none of them scored lower than a candidate left out.
TopThreeChosen(t) ==
    LET task == expansion_tasks[t]
        f == Top(t)
        candidates == Neighbors(ProcessCollections(1, graph_edges, f.node_id,
                          f.parent_score, task.visited, Len(task.stack)))
        chosen == expansion_tasks'[t].stack[Len(task.stack)].neighbors IN
    /\ Len(chosen) <= 3
    /\ Len(chosen) = IF f.current_depth < max_depth
                     THEN (IF Len(candidates) < 3 THEN Len(candidates) ELSE 3)
                     ELSE 0
    /\ \A i \in DOMAIN chosen :
          Occurrences(chosen, chosen[i]) <= Occurrences(candidates, chosen[i])
    /\ \A i \in DOMAIN candidates :
          Occurrences(chosen, candidates[i])
              < Occurrences(candidates, candidates[i])
          => \A j \in DOMAIN chosen :
                chosen[j].graph_score >= candidates[i].graph_score

\* A recursion enters the first continuation candidate left, with its score
\* as the parent score, and takes it off the list.
RecursesIntoChosen(t) ==
    (/\ t \in DOMAIN expansion_tasks
     /\ t \in DOMAIN expansion_tasks'
     /\ Len(expansion_tasks'[t].stack) = Len(expansion_tasks[t].stack) + 1)
    => LET f == Top(t)
           stack2 == expansion_tasks'[t].stack
           child == stack2[Len(stack2)] IN
       /\ f.fetched /\ f.neighbors # <<>>
       /\ child.node_id = Head(f.neighbors).memory_id
       /\ child.parent_score = Head(f.neighbors).graph_score
       /\ stack2[Len(stack2) - 1].neighbors = Tail(f.neighbors)

FanOutStep ==
    \A t \in 1..MaxSeeds :
        /\ FetchedNow(t) => TopThreeChosen(t)
        /\ RecursesIntoChosen(t)

\* C17: at every node expanded, at most 3 neighbours are chosen for
\* continuation, they are the candidates with the highest graph_score at that
\* node, and only they are recursed into.
Thm_C17_TopThreeContinuations ==
    [][FanOutStep]_all_vars

\* A node with four candidates has been expanded with depth left, one
\* candidate dropped, and the traversal went on from a chosen one.
Wit_C17 ==
    \E t \in DOMAIN expansion_tasks :
        /\ Len(expansion_tasks[t].stack) = 2
        /\ expansion_tasks[t].stack[1].node_id = "A"
        /\ Len(expansion_tasks[t].stack[1].results) = 4
        /\ Len(expansion_tasks[t].stack[1].neighbors) = 2

NoRepeats(seq) == \A i, j \in DOMAIN seq : seq[i] = seq[j] => i = j

\* C18 (as claimed): during one graph_expansion_phase call, over all seeds,
\* the connections of a memory id are fetched at most once.
CE_C18_NoRevisitAcrossSeeds ==
    \A t, u \in DOMAIN expansion_tasks :
        \A i \in DOMAIN expansion_tasks[t].fetched :
            \A j \in DOMAIN expansion_tasks[u].fetched :
                expansion_tasks[t].fetched[i] = expansion_tasks[u].fetched[j]
                => (t = u /\ i = j)

\* C18 (amended): within the expansion of one seed, the connections of a
\* memory id are fetched at most once.
Thm_C18_NoRevisitWithinSeed ==
    \A t \in DOMAIN expansion_tasks : NoRepeats(expansion_tasks[t].fetched)

\* A seed's expansion met a node a second time (B, connected to A twice)
\* and went on without fetching it again.
Wit_C18 ==
    /\ IsSome(all_results)
    /\ expansion_tasks # <<>>
    /\ expansion_tasks[1].status = "ok"
    /\ expansion_tasks[1].fetched = << "A", "B", "C" >>
    /\ Occurrences([i \in DOMAIN expansion_tasks[1].results |->
                       expansion_tasks[1].results[i].memory_id], "B") = 2

\* The store label of the edge a result was reached over.
EdgeLabel(edge_type) ==
    CASE edge_type \in {"IMPLIES", "IMPLIES_IN"} -> "IMPLIES"
      [] edge_type \in {"BECAUSE", "BECAUSE_IN"} -> "BECAUSE"
      [] edge_type \in {"CONTRADICTS", "CONTRADICTS_IN"} -> "CONTRADICTS"
      [] OTHER -> "MEMORY_RELATION"

\* C19 (as claimed): every result graph expansion emits was reached over an
\* edge whose label is in the edge_types it was given.
CE_C19_OnlyWhitelistedEdges ==
    IsSome(all_results)
    => \A i \in DOMAIN Emitted :
          \E k \in DOMAIN edge_types :
              edge_types[k] = EdgeLabel(Emitted[i].edge_path[1])


\* ---- add_relation

\* The strength the claim expects for an input strength.
Clamped(x) == IF x < 0 THEN 0 ELSE IF x > 100 THEN 100 ELSE x

\* C20: for every add_relation call with any integer strength, the strength
\* persisted, returned and cached lies in [0,100]: inputs below 0 become 0,
\* inputs above 100 become 100, the others stay.
Thm_C20_StrengthClamped ==
    /\ \A i \in DOMAIN relation_cache :
          relation_cache[i].strength \in 0..100
    /\ IsSome(ar_result)
       => LET input == Unwrap(ar_input)
              want == Clamped(input.strength) IN
          /\ IsSome(Unwrap(ar_persisted).strength)
               => Unwrap(Unwrap(ar_persisted).strength) = want
          /\ Unwrap(ar_result).ok
               => /\ Unwrap(ar_result).relation.strength = want
                  /\ \E i \in DOMAIN relation_cache :
                        /\ relation_cache[i].relation_id =
                              RelationId(input.from_id, input.to_id)
                        /\ relation_cache[i].strength = want

Wit_C20 ==
    /\ IsSome(ar_result)
    /\ Unwrap(ar_input).strength = -1
    /\ Unwrap(ar_input).relation_type = "Supports"
    /\ Unwrap(ar_persisted).strength = Some(0)
    /\ Unwrap(ar_result).ok
    /\ Unwrap(ar_result).relation.strength = 0
    /\ relation_cache # <<>>


\* ---- infer_relations, label decoding

InferredOk == IsSome(ir_result) /\ Unwrap(ir_result).ok

\* C21 (as claimed): every strength the core returns to a caller lies in
\* [0,100] whatever the LLM supplied, the strength of the relations returned
\* by infer_relations included.
CE_C21_ValuesWithinRange ==
    InferredOk
    => \A i \in DOMAIN Unwrap(ir_result).relations :
          Unwrap(ir_result).relations[i].strength \in 0..100

FourLabels ==
    { <<"I","M","P","L","I","E","S">>, <<"B","E","C","A","U","S","E">>,
      <<"C","O","N","T","R","A","D","I","C","T","S">>,
      <<"S","U","P","P","O","R","T","S">> }

\* The elements of the reply that carry every field, in order.
CompleteItems ==
    SelectSeq(Unwrap(ir_response).items,
              LAMBDA i : IsSome(i.type) /\ IsSome(i.strength))

\* Every complete element of the reply yields a relation, whose type names
\* the element's label when that is one of the four and is Supports
\* otherwise.
InferredPathDecodes ==
    InferredOk
    => /\ Len(Unwrap(ir_result).relations) = Len(CompleteItems)
       /\ \A i \in DOMAIN CompleteItems :
             LET l == Unwrap(CompleteItems[i].type)
                 t == Unwrap(ir_result).relations[i].relation_type IN
             IF l \in FourLabels THEN edge_name(t) = l ELSE t = "Supports"

\* C28 (as claimed): on the write path each of the four labels decodes to
\* the type with that edge name and every other string decodes to Implies;
\* on the LLM-inferred path every other string decodes to Supports; no label
\* is rejected.
CE_C28_OtherStringsDecodeToDefault ==
    /\ IsSome(rt_label)
       => /\ IsSome(rt_rel_type)
          /\ IF Unwrap(rt_label) \in FourLabels
             THEN edge_name(Unwrap(rt_rel_type)) = Unwrap(rt_label)
             ELSE Unwrap(rt_rel_type) = "Implies"
    /\ InferredPathDecodes

\* C28 (amended): the write path matches the label without regard to case:
\* a string whose upper-casing is one of the four labels decodes to the type
\* with that edge name, every other string to Implies; the LLM-inferred path
\* matches exactly: the four labels decode to their types, every other
\* string (other spellings of the labels included) to Supports; no label is
\* rejected on either path.
Thm_C28_LabelDecoding ==
    /\ IsSome(rt_label)
       => /\ IsSome(rt_rel_type)
          /\ IF to_uppercase(Unwrap(rt_label)) \in FourLabels
             THEN edge_name(Unwrap(rt_rel_type))
                      = to_uppercase(Unwrap(rt_label))
             ELSE Unwrap(rt_rel_type) = "Implies"
    /\ InferredPathDecodes

\* The same spelling on the two paths: because is Because on the write
\* path and Supports on the inferred path, next to an exact BECAUSE.
Wit_C28 ==
    /\ rt_label = Some(L_because)
    /\ rt_rel_type = Some("Because")
    /\ InferredOk
    /\ Len(Unwrap(ir_result).relations) = 2
    /\ Unwrap(Unwrap(ir_response).items[1].type) = L_because
    /\ Unwrap(ir_result).relations[1].relation_type = "Supports"
    /\ Unwrap(ir_result).relations[2].relation_type = "Because"


\* ---- update_memory

\* C22 (as claimed): the store never receives a second successful
\* addMemoryEmbedding for the same internal memory id and embedding model.
CE_C22_OneEmbeddingPerMemoryAndModel ==
    \A i, j \in DOMAIN store_embeddings :
        store_embeddings[i] = store_embeddings[j] => i = j


\* ---- warm_up_cache

\* Call d began right after call c, which had returned by then.
Consecutive(c, d) ==
    /\ c \in DOMAIN wu_calls /\ d \in DOMAIN wu_calls
    /\ d = c + 1
    /\ c \in wu_calls[d].after

RequestsOf(c) == Cardinality({ i \in DOMAIN wu_requests :
                                  wu_requests[i].call = c })

\* C23 (as claimed): two consecutive warm_up_cache calls issue at most one
\* getRecentRelations in total, whatever the store answered to the first.
CE_C23_AtMostOneRequestInTwoCalls ==
    \A c, d \in DOMAIN wu_calls :
        Consecutive(c, d) => RequestsOf(c) + RequestsOf(d) <= 1

\* The store answered call c's request with an error.
FailedWarmUp(c) ==
    /\ wu_calls[c].issued
    /\ IsSome(wu_calls[c].reply)
    /\ ~Unwrap(wu_calls[c].reply).ok

\* C23 (amended): two consecutive warm_up_cache calls issue at most one
\* getRecentRelations in total unless the store answered the first call's
\* request with an error; after an error the second call may issue its own,
\* and each call issues at most one.
Thm_C23_AtMostOneRequestUnlessFailed ==
    /\ \A c \in DOMAIN wu_calls : RequestsOf(c) <= 1
    /\ \A c, d \in DOMAIN wu_calls :
          (Consecutive(c, d) /\ ~FailedWarmUp(c))
          => RequestsOf(c) + RequestsOf(d) <= 1

\* The first call loaded the relations, the second returned without a
\* store call.
Wit_C23 ==
    /\ Len(wu_calls) = 2
    /\ Consecutive(1, 2)
    /\ wu_calls[1].reply = Some([ok |-> TRUE,
                                 relations |-> Some(<< "r1", "r2" >>)])
    /\ wu_calls[2].pc = "returned"
    /\ Len(wu_requests) = 1

\* The number of relations in a store answer.
RelationsReturned(reply) ==
    IF reply.relations = None THEN 0 ELSE Len(Unwrap(reply.relations))

\* The flag is set exactly when some getRecentRelations succeeded; a call
\* that queried reports the number of relations returned, or 0 after an
\* error.
WarmUpOutcomes ==
    /\ get_cache_stats.is_warmed_up
         <=> \E c \in DOMAIN wu_calls :
                /\ IsSome(wu_calls[c].reply)
                /\ Unwrap(wu_calls[c].reply).ok
    /\ \A c \in DOMAIN wu_calls :
          (wu_calls[c].issued /\ wu_calls[c].pc = "returned")
          => wu_calls[c].result =
                 Some(IF Unwrap(wu_calls[c].reply).ok
                      THEN RelationsReturned(Unwrap(wu_calls[c].reply))
                      ELSE 0)

\* The flag never goes back to false; a call that begins with the flag set
\* issues no request and returns, one that begins with the flag clear
\* issues one.
WarmUpSteps ==
    /\ is_warmed_up => is_warmed_up'
    /\ Len(wu_calls') > Len(wu_calls)
         => IF is_warmed_up
            THEN /\ wu_requests' = wu_requests
                 /\ wu_calls'[Len(wu_calls')].pc = "returned"
            ELSE Len(wu_requests') = Len(wu_requests) + 1
    /\ Len(wu_calls') = Len(wu_calls) => wu_requests' = wu_requests

\* C24: warm_up_cache sets the warmed-up flag only when getRecentRelations
\* succeeds and then reports the number of relations returned; on a store
\* error it returns 0 as a success value and leaves the flag false, so a
\* later call queries again; once set the flag never becomes false and every
\* call that begins afterwards issues no store call.
Thm_C24_WarmUpFlag ==
    /\ [](WarmUpOutcomes)
    /\ [][WarmUpSteps]_all_vars

\* An error, then a retry that loads two relations.
Wit_C24 ==
    /\ Len(wu_calls) = 2
    /\ Consecutive(1, 2)
    /\ FailedWarmUp(1)
    /\ wu_calls[1].result = Some(0)
    /\ wu_calls[2].issued
    /\ wu_calls[2].result = Some(2)
    /\ get_cache_stats.is_warmed_up

\* Neither call had returned when the other began.
Overlapping(c, d) ==
    /\ c \in DOMAIN wu_calls /\ d \in DOMAIN wu_calls
    /\ c < d
    /\ c \notin wu_calls[d].after

\* C25 (as claimed): of several warm_up_cache calls running concurrently
\* on one engine, only one issues getRecentRelations.
CE_C25_FirstCallerWins ==
    \A c, d \in DOMAIN wu_calls :
        Overlapping(c, d) => RequestsOf(c) + RequestsOf(d) <= 1


\* ---- initialize

\* C26 (as claimed): whatever the initialize calls on one client (direct or
\* through ensure_initialized, one after the other or overlapping, a close
\* in between or not), the ontology is loaded at most once in total.
CE_C26_AtMostOneOntologyLoad ==
    Cardinality({ i \in DOMAIN ontology_loads :
                    ontology_loads[i].loaded }) <= 1


\* ---- get_chain

\* The first integer written in a text: its first run of decimal digits.
RECURSIVE FirstInteger(_)
FirstInteger(text) ==
    IF text = << >> THEN None
    ELSE IF IsDigit(text[1])
    THEN LET run == CHOOSE k \in 1..Len(text) :
                       /\ \A i \in 1..k : IsDigit(text[i])
                       /\ k = Len(text) \/ ~IsDigit(text[k + 1]) IN
         Some(DecimalValue(SubSeq(text, 1, run), 0))
    ELSE FirstInteger(Tail(text))

\* The 1-based index the claim has the loop take for an LLM answer among n
\* candidates.
ClaimedChoice(reply, n) ==
    LET first == IF reply.ok THEN FirstInteger(reply.text) ELSE None IN
    IF ~IsSome(first) THEN 1
    ELSE IF Unwrap(first) < 1 THEN 1
    ELSE IF Unwrap(first) > n THEN n
    ELSE Unwrap(first)

\* C27 (as claimed): whenever get_chain asks the LLM to choose among several
\* unvisited candidates, the chain advances to the candidate at the first
\* integer of the reply clamped into 1..number of candidates, and to the
\* first candidate when the reply has no integer or the LLM call failed.
CE_C27_ChoiceIsFirstIntegerClamped ==
    \A i \in DOMAIN gc_steps :
        LET step == gc_steps[i] IN
        IsSome(step.reply) =>
            step.best = Some(step.unvisited[
                ClaimedChoice(Unwrap(step.reply), Len(step.unvisited))])


\* ---- VectorSearch::search

\* What lookups in the cache can still answer at a time: its entries no
\* older than the TTL.
Visible(cache, now) ==
    SelectSeq(cache, LAMBDA e : now - e.inserted_at <= SearchCacheTtl)

\* What the cache held for a call's key when the call began (nothing when
\* no key could be made).
CachedFor(c) ==
    LET made == make_cache_key(c.query, c.user_id, c.limit) IN
    IF made.panics THEN None
    ELSE cache_get(c.cache_before, made.key, c.now).value

\* What the cache holds for a call's key after the call.
CachedAfter(c) ==
    LET made == make_cache_key(c.query, c.user_id, c.limit) IN
    IF made.panics THEN None
    ELSE cache_get(vs_cache, made.key, c.now).value

\* The claim's four cases for one call.
CacheThrough(c) ==
    /\ c.use_cache /\ IsSome(CachedFor(c)) =>
          /\ c.result = [ok |-> TRUE, value |-> Unwrap(CachedFor(c))]
          /\ c.requests = << >>
    /\ c.use_cache /\ ~IsSome(CachedFor(c)) =>
          /\ Len(c.requests) = 1
          /\ c.requests[1].op = "vectorSearch"
          /\ c.reply.ok =>
                /\ c.result.ok
                /\ CachedAfter(c) = Some(c.result.value)
                /\ Len(c.result.value) = Len(c.reply.memories)
    /\ ~c.use_cache =>
          /\ vs_cache = c.cache_before
          /\ Len(c.requests) = 1
    /\ c.requests # << >> /\ ~c.reply.ok =>
          /\ c.result = Err("Database")
          /\ Visible(vs_cache, c.now) = Visible(c.cache_before, c.now)

\* C30 (as claimed): VectorSearch.search is cache-through: with use_cache a
\* call whose key is cached returns the cached list without a store call,
\* and every other call issues exactly one vectorSearch and caches the full
\* result list under its key; without use_cache the cache is untouched; a
\* failed store call returns a Database error and leaves the cache as it
\* was.
CE_C30_CacheThrough ==
    IsSome(vs_call) => CacheThrough(Unwrap(vs_call))


\* ---- SearchEngine::search

\* The graph_depth and vector_top_k the claim gives a mode, 0 for a mode
\* that is none of the four.
PresetDepth(lowered) ==
    IF lowered = M_recent THEN 1
    ELSE IF lowered = M_contextual THEN 2
    ELSE IF lowered = M_deep THEN 3
    ELSE IF lowered = M_full THEN 4
    ELSE 0

PresetTopK(lowered, limit) ==
    IF lowered \in { M_recent, M_contextual } THEN limit ELSE 2 * limit

\* C29 (as claimed): a search whose mode the engine takes for recent,
\* contextual, deep or full runs the smart traversal with graph_depth 1, 2,
\* 3, 4 and vector_top_k limit, limit, 2*limit, 2*limit (full also with
\* min_combined_score 0.3 and no temporal cutoff); every other mode runs the
\* plain vector search.
CE_C29_ModePresets ==
    IsSome(se_call) =>
        LET c == Unwrap(se_call)
            lowered == to_lowercase(c.mode) IN
        IF PresetDepth(lowered) = 0
        THEN c.retrieval.kind = "vector"
        ELSE /\ c.retrieval.kind = "smart"
             /\ c.retrieval.config.graph_depth = PresetDepth(lowered)
             /\ c.retrieval.config.vector_top_k =
                   PresetTopK(lowered, c.limit)
             /\ lowered = M_full =>
                   /\ c.retrieval.config.min_combined_score = 30
                   /\ c.retrieval.temporal_cutoff = None


\* The loop iterations of the running get_chain that pushed a relation, in
\* order: where each started and the memory it reached.
Advances == SelectSeq(gc_steps, LAMBDA step : IsSome(step.best))

Reached(k) == Unwrap(Advances[k].best).memory_id

\* C31: the chain get_chain returns has exactly depth relations and depth is
\* at most max_depth; the first step starts at the seed and every later one
\* at the memory the step before reached; no step reaches the seed or a
\* memory an earlier step reached.
Thm_C31_ChainIsASimplePath ==
    IsSome(gc_chain) =>
        LET chain == Unwrap(gc_chain)
            n == Len(chain.relations) IN
        /\ chain.depth = n
        /\ n <= Unwrap(gc_input).max_depth
        /\ Len(Advances) = n
        /\ \A k \in 1..n :
              /\ Advances[k].current_id =
                    IF k = 1 THEN chain.seed_memory_id ELSE Reached(k - 1)
              /\ { chain.relations[k].from_memory_id,
                   chain.relations[k].to_memory_id } =
                    { Advances[k].current_id, Reached(k) }
              /\ Reached(k) # chain.seed_memory_id
              /\ \A j \in 1..(k - 1) : Reached(j) # Reached(k)

\* A chain of two steps or more is returned, and a step after the first had
\* a visited memory among the store's candidates.
Wit_C31 ==
    /\ IsSome(gc_chain)
    /\ Len(Unwrap(gc_chain).relations) >= 2
    /\ \E k \in DOMAIN Advances :
          /\ k > 1
          /\ Len(Advances[k].unvisited) <
                Len(Candidates(graph_edges, Advances[k].current_id,
                               Unwrap(gc_input).chain_type))

\* C39 (as claimed): in the chain reported for a get_chain result the k-th
\* node's memory_id is the memory the walker reached at step k, whose
\* content the node carries, never the seed or the memory the step started
\* from.
CE_C39_NodeIsTheMemoryReached ==
    IsSome(gc_nodes) =>
        LET nodes == Unwrap(gc_nodes) IN
        \A k \in DOMAIN nodes :
           /\ nodes[k].memory_id = Reached(k)
           /\ nodes[k].content = ContentOf(nodes[k].memory_id)
           /\ nodes[k].memory_id # Unwrap(gc_input).memory_id
           /\ nodes[k].memory_id # Advances[k].current_id


\* ---- get_memory_graph

\* The eight lists of a memory's connections, as the store names them.
AllLists ==
    { [label |-> l, out |-> o] :
        l \in { "IMPLIES", "BECAUSE", "CONTRADICTS", "MEMORY_RELATION" },
        o \in BOOLEAN }

\* How often an edge from source to target occurs in the returned list.
EdgeCount(source, target) ==
    Cardinality({ i \in DOMAIN mg_edges :
                    /\ mg_edges[i].source = source
                    /\ mg_edges[i].target = target })

\* C34 (as claimed): for every memory get_memory_graph visited and whose
\* connections it received, every neighbour in each of the four outgoing
\* lists yields an edge from the memory to the neighbour and every
\* neighbour in each of the four incoming lists an edge from the neighbour
\* to the memory.
CE_C34_EdgesForAllEightLists ==
    \A v \in DOMAIN mg_visits :
        mg_visits[v].conns_ok =>
            \A l \in AllLists :
                LET mid == mg_visits[v].memory_id
                    ids == Connected(graph_edges, mid, l) IN
                \A i \in DOMAIN ids :
                    IF l.out THEN EdgeCount(mid, ids[i]) > 0
                    ELSE EdgeCount(ids[i], mid) > 0

\* C40 (as claimed): the edge list get_memory_graph returns holds no
\* (source, target, type) triple twice.
CE_C40_NoDuplicateEdges ==
    IsSome(mg_result) =>
        LET edges == Unwrap(mg_result).edges IN
        \A i, j \in DOMAIN edges : edges[i] = edges[j] => i = j


\* ---- termination

\* graph_expansion_phase, get_chain and get_memory_graph have all returned.
WalkersReturned ==
    /\ all_results # None
    /\ gc_pc = "returned"
    /\ mg_pc = "returned"

\* C32: on every finite graph, cycles and self-loops included, graph
\* expansion, the reasoning-chain walker and the memory-graph BFS each
\* return, provided every call they make returns.
Thm_C32_WalkersTerminate == <>WalkersReturned

\* The BFS has returned from a graph with a self-loop after visiting three
\* memories and skipping one it had visited.
Wit_C32 ==
    /\ WalkersReturned
    /\ \E i \in DOMAIN graph_edges : graph_edges[i].from = graph_edges[i].to
    /\ Len(mg_visits) >= 3
    /\ mg_level.current_depth >= 2


\* ---- a failed expansion task

\* The results of task t stand in the returned list, whole and in order.
ReturnedInFull(t) ==
    LET all == Unwrap(all_results)
        res == expansion_tasks[t].results IN
    \E off \in 0..Len(all) :
       /\ off + Len(res) <= Len(all)
       /\ SubSeq(all, off + 1, off + Len(res)) = res

\* C33: graph_expansion_phase returns Ok whatever its tasks did, and what it
\* returns holds in full the results of every seed whose task returned Ok,
\* also when the task of another seed failed or panicked.
Thm_C33_FailedSeedLosesOnlyItsOwnResults ==
    all_results # None =>
       /\ IsSome(all_results)
       /\ \A t \in DOMAIN expansion_tasks :
             /\ expansion_tasks[t].status # "running"
             /\ expansion_tasks[t].status = "ok" => ReturnedInFull(t)

\* The phase has returned; the task of the first seed panicked, that of a
\* later seed returned results.
Wit_C33 ==
    /\ all_results # None
    /\ Len(expansion_tasks) >= 2
    /\ expansion_tasks[1].status = "panicked"
    /\ \E t \in DOMAIN expansion_tasks :
          /\ expansion_tasks[t].status = "ok"
          /\ expansion_tasks[t].results # <<>>
    /\ Unwrap(all_results) # <<>>


\* ---- update_memory on a memory the store does not hold

\* The requests that write to the store.
WritingOps == { "updateMemoryById", "addMemoryEmbedding" }

\* C35: an update_memory call on an id for which getMemory answers no
\* memory, or a node with an empty id, returns an error, issues neither
\* updateMemoryById nor addMemoryEmbedding, and leaves the store as it was.
Thm_C35_UpdateOfMissingMemory ==
    [][(um_input = None /\ um_input' # None
          /\ Unwrap(um_input').memory_id = MissingId)
       => /\ ~Unwrap(um_result').ok
          /\ \A i \in DOMAIN um_requests' :
                um_requests'[i].op \notin WritingOps
          /\ store_memories' = store_memories
          /\ store_embeddings' = store_embeddings]_all_vars

\* A call on the missing id that asked getMemory and returned the Database
\* error.
Wit_C35 ==
    /\ um_input # None
    /\ Unwrap(um_input).memory_id = MissingId
    /\ um_requests = << Request("getMemory", MissingId) >>
    /\ um_result = Some(Err("Database"))
    /\ Len(store_embeddings) = 2


\* ---- the number of results of a search

\* C38: a SearchEngine::search call that returns results returns at most
\* limit of them, in every mode and in the vector fallback.
CE_C38_AtMostLimitResults ==
    (se_call # None /\ Unwrap(se_call).result # Panicked
        /\ Unwrap(se_call).result.ok)
    => Len(Unwrap(se_call).result.value) <= Unwrap(se_call).limit


\* ---- the owner of the results

\* C36: the results a smart-traversal search returns to a user hold only
\* memories linked to that user.
CE_C36_ResultsAreTheUsersOwn ==
    (tr_call # None /\ Unwrap(tr_call).pc = "returned"
        /\ Unwrap(tr_call).result.ok)
    => \A i \in DOMAIN Unwrap(tr_call).result.value :
          tr_owner[Unwrap(tr_call).result.value[i].memory_id]
              = Unwrap(Unwrap(tr_call).user_id)


\* ---- the accounting of an add_memory result

\* C37: when add_memory returns a result, the ids whose addMemory succeeded
\* in the call are exactly the ids in added, and added, updated and skipped
\* together count every memory the call processed.
CE_C37_ResultAccountsForEveryMemory ==
    (result # None /\ Unwrap(result).ok)
    => /\ stored = { Unwrap(result).added[i] :
                        i \in DOMAIN Unwrap(result).added }
       /\ Len(Unwrap(result).added) + Len(Unwrap(result).updated)
             + Unwrap(result).skipped = Len(memories_to_store)


====
